---- MODULE Spec2Model ----
(***************************************************************************)
(* RecipeGenie AI service: the relevance scorer (RecipeRecommender), the   *)
(* ingredient text normaliser and the recipe enricher.                     *)
(*                                                                         *)
(* Conventions of the model                                                *)
(*  - a Python str is a sequence of one-character strings;                 *)
(*  - a Python dict is a function whose DOMAIN is its key set;             *)
(*  - a float is an exact rational <<n, d>> in lowest terms with d > 0;    *)
(*    NaN is <<0, 0>> and every arithmetic step propagates it.  Real       *)
(*    arithmetic stands for IEEE doubles: two rows with the same inputs    *)
(*    get the same score in both.                                          *)
(***************************************************************************)
EXTENDS Integers, Sequences, FiniteSets, TLC

VARIABLES
    recipes,              \* recommend: the caller's list of recipe dicts
    user_preferences,     \* recommend: the caller's preference dict
    ingredients,          \* recommend: the caller's (preprocessed) ingredients
    enhanced_recipes,     \* recommend: the list returned
    df_index,             \* recommend: df.index after sort_values (input positions)
    rec_pc,               \* "call" before recommend runs, then the return taken
    processing_metadata,  \* RecipeRecommender.processing_metadata
    feature_weights,      \* RecipeRecommender.feature_weights
    clock,                \* time.time() / datetime.now(), in ticks
    ingredient,           \* normalize_ingredient: the raw string
    normalized,           \* normalize_ingredient(ingredient)
    renormalized,         \* normalize_ingredient(normalized)
    norm_pc,              \* "call", "once", "twice"
    raw_ingredients,      \* preprocess_ingredients: the raw list
    processed,            \* preprocess_ingredients: the list returned
    pre_pc,               \* "call", "returned"
    en_recipes,           \* enrich_recipe_data: the caller's list (object ids)
    heap,                 \* object id -> dict, the records that exist
    enriched,             \* enrich_recipe_data: the list returned (object ids)
    en_pc,                \* "call", "empty", "ok", "error"
    hash_seed,            \* PYTHONHASHSEED of the run
    an_ingredients,       \* analyze_ingredients: the caller's list
    analysis,             \* analyze_ingredients: the dict returned
    an_pc,                \* "call", "empty", "ok"
    sg_ingredients,       \* suggest_additional_ingredients: the caller's list
    suggestions,          \* suggest_additional_ingredients: the list returned
    sg_pc,                \* "call", "empty", "ok"
    training_data,        \* train: the caller's training samples
    force,                \* train: the force argument
    train_result,         \* train: the dict returned
    train_pc,             \* "call", "skipped", "success", "error"
    fitted,               \* the vectorizers and scaler that have been fitted
    saved_models,         \* the model files on disk: <<>> or <<fitted as written>>
    trained_at,           \* history: <<>> or <<when the latest train succeeded>>
    calls,                \* calls made on the service so far
    requests              \* thread -> its enhance-recipes request in flight

vars == <<recipes, user_preferences, ingredients, enhanced_recipes, df_index,
          rec_pc, processing_metadata, feature_weights, clock, ingredient,
          normalized,
          renormalized, norm_pc, raw_ingredients, processed, pre_pc,
          en_recipes, heap, enriched, en_pc, hash_seed,
          an_ingredients, analysis, an_pc, sg_ingredients, suggestions, sg_pc,
          training_data, force, train_result, train_pc, fitted, saved_models,
          trained_at, calls, requests>>

recVars == <<recipes, user_preferences, ingredients, enhanced_recipes,
             df_index, rec_pc, processing_metadata, feature_weights, clock>>
normVars == <<ingredient, normalized, renormalized, norm_pc>>
preVars == <<raw_ingredients, processed, pre_pc>>
enVars == <<en_recipes, heap, enriched, en_pc, hash_seed>>
anVars == <<an_ingredients, analysis, an_pc>>
sgVars == <<sg_ingredients, suggestions, sg_pc>>
trainVars == <<training_data, force, train_result, train_pc, fitted, saved_models,
               trained_at>>

(***************************************************************************)
(* Sequences                                                               *)
(***************************************************************************)
Range(s) == {s[i] : i \in 1..Len(s)}

SeqsUpTo(S, n) == UNION {[1..k -> S] : k \in 0..n}

RECURSIVE Concat(_)
Concat(ss) == IF ss = <<>> THEN <<>> ELSE Head(ss) \o Concat(Tail(ss))

\* sep.join(ss)
RECURSIVE Join(_, _)
Join(ss, sep) ==
    IF ss = <<>> THEN <<>>
    ELSE IF Len(ss) = 1 THEN ss[1]
    ELSE ss[1] \o sep \o Join(Tail(ss), sep)

Perms(n) == {p \in [1..n -> 1..n] : \A i, j \in 1..n : i # j => p[i] # p[j]}

(***************************************************************************)
(* Strings as character sequences                                          *)
(***************************************************************************)
\* s[i:i+n] == pat
MatchAt(s, i, pat) ==
    /\ i + Len(pat) - 1 <= Len(s)
    /\ \A k \in 1..Len(pat) : s[i + k - 1] = pat[k]

\* pat in s
Contains(s, pat) == \E i \in 1..(Len(s) + 1) : MatchAt(s, i, pat)

UpperChars == <<"A","B","C","D","E","F","G","H","I","J","K","L","M",
                "N","O","P","Q","R","S","T","U","V","W","X","Y","Z">>
LowerChars == <<"a","b","c","d","e","f","g","h","i","j","k","l","m",
                "n","o","p","q","r","s","t","u","v","w","x","y","z">>
Digits == {"0","1","2","3","4","5","6","7","8","9"}

\* str.lower on one character
LowerChar(c) ==
    IF \E k \in 1..26 : UpperChars[k] = c
    THEN LowerChars[CHOOSE k \in 1..26 : UpperChars[k] = c]
    ELSE c

\* str.lower
Lower(s) == [i \in 1..Len(s) |-> LowerChar(s[i])]

(***************************************************************************)
(* Floats as exact rationals                                               *)
(***************************************************************************)
NaN == <<0, 0>>
IsNaN(x) == x[2] = 0

Abs(n) == IF n < 0 THEN -n ELSE n

RECURSIVE GCD(_, _)
GCD(a, b) == IF b = 0 THEN a ELSE GCD(b, a % b)

LCM(a, b) == (a \div GCD(a, b)) * b

Rat(n, d) ==
    IF d = 0 THEN NaN
    ELSE LET g == GCD(Abs(n), Abs(d))
             s == IF d < 0 THEN -1 ELSE 1
         IN  <<(s * n) \div g, (s * d) \div g>>

Zero == Rat(0, 1)
One == Rat(1, 1)

RAdd(x, y) ==
    IF IsNaN(x) \/ IsNaN(y) THEN NaN
    ELSE LET l == LCM(x[2], y[2])
         IN  Rat(x[1] * (l \div x[2]) + y[1] * (l \div y[2]), l)

RNeg(x) == IF IsNaN(x) THEN NaN ELSE <<-x[1], x[2]>>
RSub(x, y) == RAdd(x, RNeg(y))

RMul(x, y) ==
    IF IsNaN(x) \/ IsNaN(y) THEN NaN
    ELSE LET g1 == GCD(Abs(x[1]), y[2])
             g2 == GCD(Abs(y[1]), x[2])
         IN  Rat((x[1] \div g1) * (y[1] \div g2), (x[2] \div g2) * (y[2] \div g1))

\* x / y for y # 0
RDiv(x, y) ==
    IF IsNaN(x) \/ IsNaN(y) THEN NaN
    ELSE RMul(x, Rat(y[2], y[1]))

RAbs(x) == IF IsNaN(x) THEN NaN ELSE <<Abs(x[1]), x[2]>>

\* x < y; False when either is NaN
RLess(x, y) ==
    /\ ~IsNaN(x)
    /\ ~IsNaN(y)
    /\ RSub(x, y)[1] < 0

\* x <= y; False when either is NaN
RLeq(x, y) ==
    /\ ~IsNaN(x)
    /\ ~IsNaN(y)
    /\ RSub(x, y)[1] <= 0

\* Python min(x, y) / max(x, y) on non-NaN floats
RMin(x, y) == IF RLess(y, x) THEN y ELSE x
RMax(x, y) == IF RLess(x, y) THEN y ELSE x

\* Series.max(): NaN entries are skipped; NaN when nothing is left
ColMax(col) ==
    LET vals == {col[i] : i \in 1..Len(col)} \ {NaN}
    IN  IF vals = {} THEN NaN
        ELSE CHOOSE m \in vals : \A v \in vals : RLeq(v, m)

\* Series.round(4): to the nearest multiple of 1/10000, halves to even
RoundDigits == 4
RECURSIVE LongDiv(_, _, _, _)
LongDiv(q, r, d, k) ==
    IF k = 0 THEN <<q, r>>
    ELSE LongDiv(q * 10 + ((r * 10) \div d), (r * 10) % d, d, k - 1)

RECURSIVE Pow10(_)
Pow10(k) == IF k = 0 THEN 1 ELSE 10 * Pow10(k - 1)

Round4(x) ==
    IF IsNaN(x) THEN NaN
    ELSE LET qr == LongDiv(x[1] \div x[2], x[1] % x[2], x[2], RoundDigits)
             q == qr[1]
             r == qr[2]
             up == \/ 2 * r > x[2]
                   \/ (2 * r = x[2] /\ q % 2 = 1)
         IN  Rat(IF up THEN q + 1 ELSE q, Pow10(RoundDigits))

(***************************************************************************)
(* Bounds and the inputs the operations are exercised on                   *)
(***************************************************************************)
MaxRecipes == 3       \* longest recipe list handed to recommend
MaxElapsed == 1       \* longest run of one call, in clock ticks

s_tomato == <<"t","o","m","a","t","o">>
s_TomatoSauce == <<"T","o","m","a","t","o"," ","S","a","u","c","e">>
s_basil == <<"b","a","s","i","l">>
s_rice == <<"r","i","c","e">>
s_vegan == <<"v","e","g","a","n">>
s_Vegan == <<"V","e","g","a","n">>

\* recipe records as recommend receives them.  The popularity values are
\* picked so that two scores differ by less than the 4 decimals kept.
RecipePool ==
    { [id |-> "r1", popularity |-> Rat(5000, 1), complexity |-> Rat(1, 2),
       ingredients |-> <<s_TomatoSauce>>, cuisine |-> "italian", tags |-> <<s_vegan>>],
      [id |-> "r2", popularity |-> Rat(4999, 1), complexity |-> Rat(1, 2),
       ingredients |-> <<s_TomatoSauce>>, cuisine |-> "italian", tags |-> <<s_vegan>>],
      [id |-> "r3", popularity |-> Rat(0, 1), complexity |-> Rat(0, 1),
       ingredients |-> <<s_basil, s_rice>>, cuisine |-> "thai", tags |-> <<>>],
      [id |-> "r4", complexity |-> Rat(1, 4),
       ingredients |-> <<s_tomato, s_rice>>, tags |-> <<>>],
      [id |-> "r5", popularity |-> Rat(5000, 1)],
      [id |-> "r6", popularity |-> Rat(100, 1), complexity |-> Rat(1, 2),
       ingredients |-> <<s_tomato, s_TomatoSauce, s_tomato, s_TomatoSauce,
                         s_tomato, s_rice>>,
       cuisine |-> "thai", tags |-> <<>>] }

PreferencePool ==
    { <<>>,
      [favorites |-> <<>>],
      [favorites |-> <<"r1">>],
      [cuisine_preferences |-> <<"italian">>],
      [favorites |-> <<"r3">>, cuisine_preferences |-> <<"italian">>,
       dietary_restrictions |-> <<s_Vegan>>,
       past_interactions |-> <<[recipe_id |-> "r2", rating |-> 5], [recipe_id |-> "r3"]>>] }

IngredientsPool == { <<>>, <<s_tomato>> }

MaxTokens == 3        \* most tokens in a raw string handed to normalize_ingredient
MaxIngredients == 3   \* longest raw list handed to preprocess_ingredients

\* the words raw ingredient strings are made of, joined by single spaces
TokenPool ==
    { <<"o","l","i","v","e">>,
      <<"o","i","l">>,
      <<"1">>,
      <<"c","u","p","s">>,
      <<"F","r","e","s","h">>,
      <<"t","o">>,
      <<"t","a","s","t","e">>,
      <<"r","e","d">>,
      <<"p","e","p","p","e","r","s">>,
      <<"T","o","m","a","t","o","e","s",",">>,
      <<"j","a","l","a","p","e","n~","o","s">>,
      <<"1","/","2">> }

RawStrings == {Join(ts, <<" ">>) : ts \in SeqsUpTo(TokenPool, MaxTokens)}

\* raw list elements for preprocess_ingredients
RawPool ==
    { <<"2"," ","c","u","p","s"," ","T","o","m","a","t","o","e","s">>,
      <<"t","o","m","a","t","o">>,
      <<"B","a","s","i","l",","," ","f","r","e","s","h">>,
      <<"1"," ","g">>,
      <<"a">>,
      <<"o","l","i","v","e"," ","1"," ","o","i","l">>,
      <<"o","i","l">> }

MaxBatch == 2         \* longest recipe list handed to enrich_recipe_data
MaxHashSeed == 1      \* hash seeds 0..MaxHashSeed, one drawn per process run
HashModulus == 997    \* str hashes are kept in a window of this many values

\* values a caller-defined field can hold
ListOf(items) == [type |-> "list", items |-> items]
IntOf(n) == [type |-> "int", value |-> n]
StrOf(chars) == [type |-> "str", chars |-> chars]

s_Pasta == <<"P","a","s","t","a">>
s_quick == <<"q","u","i","c","k">>
s_italian == <<" ","i","t","a","l","i","a","n">>
s_beef == <<"b","e","e","f">>
s_2cupsTomatoes == <<"2"," ","c","u","p","s"," ","T","o","m","a","t","o","e","s">>
s_BoilServe == <<"B","o","i","l"," ","p","a","s","t","a","."," ","S","e","r","v","e">>
s_Simmer == <<"S","i","m","m","e","r">>
s_riceBasil == <<"r","i","c","e",","," ","b","a","s","i","l">>
s_ElevenSteps == <<"a",".","b","!","c","?","d",".","e",".","f",".","g",".","h",".","i",".","j",".","k">>

\* recipes handed to enrich_recipe_data
EnrichPool ==
    { [title |-> s_Pasta, ingredients |-> ListOf(<<s_2cupsTomatoes, s_basil>>),
       instructions |-> StrOf(s_BoilServe), cuisine |-> s_italian],
      [title |-> s_Pasta, ingredients |-> ListOf(<<s_2cupsTomatoes, s_basil>>),
       instructions |-> StrOf(s_Simmer), cooking_time_minutes |-> 30,
       tags |-> <<s_quick>>],
      [title |-> <<>>, ingredients |-> ListOf(<<>>), instructions |-> StrOf(<<>>)],
      [ingredients |-> ListOf(<<s_beef>>), instructions |-> ListOf(<<s_rice, s_basil>>),
       cooking_time_minutes |-> 0],
      [title |-> s_rice, ingredients |-> IntOf(5), tags |-> <<s_quick>>],
      [title |-> s_basil, instructions |-> StrOf(s_ElevenSteps), tags |-> <<s_quick>>],
      [title |-> s_rice, ingredients |-> StrOf(s_riceBasil), tags |-> <<s_quick>>,
       cooking_time_minutes |-> 30] }

MaxAnalyze == 4       \* longest ingredient list handed to analyze_ingredients

s_pasta == <<"p","a","s","t","a">>
s_parmesan == <<"p","a","r","m","e","s","a","n">>
s_cornBread == <<"c","o","r","n"," ","b","r","e","a","d">>
s_pepperBacon == <<"p","e","p","p","e","r"," ","b","a","c","o","n">>

\* preprocessed ingredients handed to analyze_ingredients
AnalyzePool == {s_pasta, s_tomato, s_basil, s_parmesan, s_cornBread, s_pepperBacon}

MaxSuggest == 3       \* longest list handed to suggest_additional_ingredients

s_Chicken == <<"C","h","i","c","k","e","n">>
s_garlic == <<"g","a","r","l","i","c">>
s_tomatoSauce == <<"t","o","m","a","t","o"," ","s","a","u","c","e">>

\* preprocessed ingredients handed to suggest_additional_ingredients
SuggestPool == {s_tomato, s_Chicken, s_rice, s_garlic, s_tomatoSauce, s_pasta}

MaxRequests == 2      \* enhance-recipes requests handled at the same time
MaxCalls == 2         \* calls made on one service in a run

DayTicks == 2         \* clock ticks in one day

\* training samples: one with a cuisine and a rating, one whose cuisine is ''
sample_rated == [recipe_id |-> "r1", cuisine |-> s_italian, user_rating |-> 5]
sample_blank == [recipe_id |-> "r2", cuisine |-> <<>>]

\* training sets handed to train: none, one sample, and six samples (enough
\* to fit the cuisine vectorizer) with and without a word in the cuisines
TrainingPool ==
    { <<>>,
      <<sample_rated>>,
      [i \in 1..6 |-> sample_rated],
      [i \in 1..6 |-> sample_blank] }

(***************************************************************************)
(* RecipeRecommender.recommend                                             *)
(***************************************************************************)
\* DataFrame(recipes).columns: every key of every record
Columns(rs) == UNION {DOMAIN rs[i] : i \in 1..Len(rs)}

\* a numeric cell of DataFrame(recipes): NaN where the record has no such key
Cell(rs, i, k) == IF k \in DOMAIN rs[i] THEN rs[i][k] ELSE NaN

\* RecipeRecommender.__init__: self.feature_weights
\* a recommender that weighs its four signals alike
EqualWeights ==
    [ingredient_match |-> Rat(1, 4), user_preference |-> Rat(1, 4),
     popularity |-> Rat(1, 4), complexity |-> Rat(1, 4)]

InitialWeights ==
    [ingredient_match |-> Rat(4, 10), user_preference |-> Rat(3, 10),
     popularity |-> Rat(2, 10), complexity |-> Rat(1, 10)]

\* a match that is the plain fraction of matched ingredients
UnboostedIngredientMatch(recipe_ingredients, user_ingredients) ==
    IF recipe_ingredients = <<>> \/ user_ingredients = <<>> THEN Zero
    ELSE Rat(Cardinality({i \in 1..Len(recipe_ingredients) :
                 \E j \in 1..Len(user_ingredients) :
                     Contains(Lower(recipe_ingredients[i]), Lower(user_ingredients[j]))}),
             Len(recipe_ingredients))

_calculate_ingredient_match(recipe_ingredients, user_ingredients) ==
    IF recipe_ingredients = <<>> \/ user_ingredients = <<>> THEN Zero
    ELSE LET recipe_ingredients_lower ==
                 [i \in 1..Len(recipe_ingredients) |-> Lower(recipe_ingredients[i])]
             user_ingredients_lower ==
                 [j \in 1..Len(user_ingredients) |-> Lower(user_ingredients[j])]
             matched_ingredients ==
                 Cardinality({i \in 1..Len(recipe_ingredients) :
                     \E j \in 1..Len(user_ingredients) :
                         Contains(recipe_ingredients_lower[i], user_ingredients_lower[j])})
             total_required == Len(recipe_ingredients)
             match_percentage == Rat(matched_ingredients, total_required)
             boosted == IF RLess(Rat(8, 10), match_percentage)
                        THEN RMul(match_percentage, Rat(12, 10))
                        ELSE match_percentage
         IN  RMin(boosted, One)

\* the apply over df['ingredients'] raises TypeError on a NaN cell (a record
\* without the key): NaN is truthy and not iterable
IngredientMatchRaises(rs) == \E i \in 1..Len(rs) : "ingredients" \notin DOMAIN rs[i]

\* dict.get(key, default)
Get(d, k, default) == IF k \in DOMAIN d THEN d[k] ELSE default

\* str(recipe_row.get('id', '')): '' without an id column, 'nan' on a NaN cell
RowId(rs, i) ==
    IF "id" \notin Columns(rs) THEN ""
    ELSE IF "id" \in DOMAIN rs[i] THEN rs[i]["id"] ELSE "nan"

\* sum of a sequence of floats
RECURSIVE RSum(_)
RSum(xs) == IF xs = <<>> THEN Zero ELSE RAdd(Head(xs), RSum(Tail(xs)))

\* a preference score that may go below zero
UnflooredPreferenceScore(rs, i, prefs) ==
    LET recipe_id == RowId(rs, i)
        fav == IF "favorites" \in DOMAIN prefs /\ recipe_id \in Range(prefs["favorites"])
               THEN One ELSE Zero
        cui == IF /\ "cuisine_preferences" \in DOMAIN prefs
                  /\ "cuisine" \in Columns(rs)
                  /\ "cuisine" \in DOMAIN rs[i]
                  /\ rs[i]["cuisine"] \in Range(prefs["cuisine_preferences"])
               THEN Rat(5, 10) ELSE Zero
        recipe_tags == {Lower(t) : t \in Range(rs[i]["tags"])}
        restrictions == prefs["dietary_restrictions"]
        diet == IF "dietary_restrictions" \in DOMAIN prefs /\ "tags" \in Columns(rs)
                THEN RSum([r \in 1..Len(restrictions) |->
                              IF Lower(restrictions[r]) \in recipe_tags
                              THEN Rat(-7, 10) ELSE Zero])
                ELSE Zero
        past == prefs["past_interactions"]
        inter == IF "past_interactions" \in DOMAIN prefs
                 THEN RSum([r \in 1..Len(past) |->
                               IF Get(past[r], "recipe_id", "") = recipe_id
                                  /\ "rating" \in DOMAIN past[r]
                               THEN RMul(Rat(past[r]["rating"], 5), Rat(8, 10))
                               ELSE Zero])
                 ELSE Zero
        score == RAdd(RAdd(RAdd(fav, cui), diet), inter)
    IN  score

_calculate_preference_score(rs, i, prefs) ==
    LET recipe_id == RowId(rs, i)
        fav == IF "favorites" \in DOMAIN prefs /\ recipe_id \in Range(prefs["favorites"])
               THEN One ELSE Zero
        cui == IF /\ "cuisine_preferences" \in DOMAIN prefs
                  /\ "cuisine" \in Columns(rs)
                  /\ "cuisine" \in DOMAIN rs[i]
                  /\ rs[i]["cuisine"] \in Range(prefs["cuisine_preferences"])
               THEN Rat(5, 10) ELSE Zero
        recipe_tags == {Lower(t) : t \in Range(rs[i]["tags"])}
        restrictions == prefs["dietary_restrictions"]
        diet == IF "dietary_restrictions" \in DOMAIN prefs /\ "tags" \in Columns(rs)
                THEN RSum([r \in 1..Len(restrictions) |->
                              IF Lower(restrictions[r]) \in recipe_tags
                              THEN Rat(-7, 10) ELSE Zero])
                ELSE Zero
        past == prefs["past_interactions"]
        inter == IF "past_interactions" \in DOMAIN prefs
                 THEN RSum([r \in 1..Len(past) |->
                               IF Get(past[r], "recipe_id", "") = recipe_id
                                  /\ "rating" \in DOMAIN past[r]
                               THEN RMul(Rat(past[r]["rating"], 5), Rat(8, 10))
                               ELSE Zero])
                 ELSE Zero
        score == RAdd(RAdd(RAdd(fav, cui), diet), inter)
    IN  RMax(score, Zero)

\* the row-wise apply raises TypeError when recipe_row['tags'] is a NaN cell
PreferenceScoreRaises(rs, prefs) ==
    /\ "dietary_restrictions" \in DOMAIN prefs
    /\ "tags" \in Columns(rs)
    /\ \E i \in 1..Len(rs) : "tags" \notin DOMAIN rs[i]

\* col / col.max() when the maximum is positive, else col as it is
BatchNormalize(col) ==
    LET m == ColMax(col)
    IN  IF RLess(Zero, m) THEN [i \in 1..Len(col) |-> RDiv(col[i], m)] ELSE col

HasIngredientMatch(rs, ings) == ings # <<>> /\ "ingredients" \in Columns(rs)
HasPreference(prefs) == DOMAIN prefs # {} /\ "favorites" \in DOMAIN prefs
HasPopularity(rs) ==
    /\ "popularity" \in Columns(rs)
    /\ RLess(Zero, ColMax([i \in 1..Len(rs) |-> Cell(rs, i, "popularity")]))
HasComplexity(rs) == "complexity" \in Columns(rs)

\* df['ingredient_match_score'], lines 215-220
IngredientMatchColumn(rs, ings) ==
    BatchNormalize([i \in 1..Len(rs) |->
        _calculate_ingredient_match(rs[i]["ingredients"], ings)])

\* df['preference_score'], lines 227-233
PreferenceColumn(rs, prefs) ==
    BatchNormalize([i \in 1..Len(rs) |-> _calculate_preference_score(rs, i, prefs)])

\* df['normalized_popularity'], line 242
PopularityColumn(rs) ==
    LET col == [i \in 1..Len(rs) |-> Cell(rs, i, "popularity")]
    IN  [i \in 1..Len(rs) |-> RDiv(col[i], ColMax(col))]

\* df['complexity_score'], line 249
ComplexityColumn(rs) ==
    [i \in 1..Len(rs) |->
        RSub(One, RMul(RAbs(RSub(Cell(rs, i, "complexity"), Rat(1, 2))), Rat(2, 1)))]

\* the columns recommend adds before ranking, as column name -> Series
ScoreColumns(rs, prefs, ings) ==
    LET names == (IF HasIngredientMatch(rs, ings) THEN {"ingredient_match_score"} ELSE {})
                 \cup (IF HasPreference(prefs) THEN {"preference_score"} ELSE {})
                 \cup (IF HasPopularity(rs) THEN {"normalized_popularity"} ELSE {})
                 \cup (IF HasComplexity(rs) THEN {"complexity_score"} ELSE {})
    IN  [c \in names |->
            CASE c = "ingredient_match_score" -> IngredientMatchColumn(rs, ings)
              [] c = "preference_score" -> PreferenceColumn(rs, prefs)
              [] c = "normalized_popularity" -> PopularityColumn(rs)
              [] c = "complexity_score" -> ComplexityColumn(rs)]

\* which weight multiplies which column
WeightOf(w, c) ==
    CASE c = "ingredient_match_score" -> w.ingredient_match
      [] c = "preference_score" -> w.user_preference
      [] c = "normalized_popularity" -> w.popularity
      [] c = "complexity_score" -> w.complexity

SignalOrder ==
    <<"ingredient_match_score", "preference_score", "normalized_popularity",
      "complexity_score">>

\* df['ai_relevance_score'] before rounding: 0.0, then += column * weight for
\* each column computed, lines 211-250
RelevanceScores(rs, cols, w) ==
    [i \in 1..Len(rs) |->
        RSum([k \in 1..Len(SignalOrder) |->
                 IF SignalOrder[k] \in DOMAIN cols
                 THEN RMul(cols[SignalOrder[k]][i], WeightOf(w, SignalOrder[k]))
                 ELSE Zero])]

\* df.sort_values('ai_relevance_score', ascending=False) with the default
\* kind='quicksort', which is not stable: any order of the rows that is
\* descending by score, rows of equal score in either order; NaN scores come
\* last (na_position='last') in their input order.
SortOrders(ai) ==
    {p \in Perms(Len(ai)) :
        \A a, b \in 1..Len(ai) : a < b =>
            /\ ~RLess(ai[p[a]], ai[p[b]])
            /\ (IsNaN(ai[p[a]]) => IsNaN(ai[p[b]]) /\ p[a] < p[b])}

\* df.to_dict('records') for the row at sorted position k
ToDictRecord(rs, cols, ai, p, k) ==
    LET i == p[k]
        keys == Columns(rs) \cup DOMAIN cols \cup {"ai_relevance_score", "ai_rank"}
    IN  [c \in keys |->
            IF c = "ai_rank" THEN k
            ELSE IF c = "ai_relevance_score" THEN Round4(ai[i])
            ELSE IF c \in DOMAIN cols THEN cols[c][i]
            ELSE IF c \in DOMAIN rs[i] THEN rs[i][c]
            ELSE NaN]

\* the exception handler of recommend is entered
RecommendRaises(rs, prefs, ings) ==
    \/ HasIngredientMatch(rs, ings) /\ IngredientMatchRaises(rs)
    \/ HasPreference(prefs) /\ PreferenceScoreRaises(rs, prefs)

MetadataKeys == {"last_recommendation_time", "recipes_processed", "processing_time_seconds"}

\* a recommend that starts its metadata afresh
FreshRecommendMetadata(pm, now, n, elapsed) ==
    [last_recommendation_time |-> now, recipes_processed |-> n,
     processing_time_seconds |-> elapsed]

\* {**self.processing_metadata, 'last_recommendation_time': ..., ...}
RecommendMetadata(pm, now, n, elapsed) ==
    [k \in DOMAIN pm \cup MetadataKeys |->
        IF k = "last_recommendation_time" THEN now
        ELSE IF k = "recipes_processed" THEN n
        ELSE IF k = "processing_time_seconds" THEN elapsed
        ELSE pm[k]]

\* line 204-205: if not recipes: return []
RecommendEmpty ==
    /\ rec_pc = "call"
    /\ recipes = <<>>
    /\ enhanced_recipes' = <<>>
    /\ df_index' = <<>>
    /\ rec_pc' = "empty"
    /\ UNCHANGED <<recipes, user_preferences, ingredients, processing_metadata,
                   feature_weights, clock>>
    /\ UNCHANGED <<normVars, preVars, enVars, anVars, sgVars, trainVars, calls, requests>>

\* a handler that hands back an empty list instead of the caller's
FallbackEmpty(rs) == <<>>

\* line 277: return recipes
Fallback(rs) == rs

\* lines 274-277: except Exception: return recipes
RecommendError ==
    /\ rec_pc = "call"
    /\ recipes # <<>>
    /\ RecommendRaises(recipes, user_preferences, ingredients)
    /\ enhanced_recipes' = Fallback(recipes)
    /\ df_index' = <<>>
    /\ rec_pc' = "error"
    /\ UNCHANGED <<recipes, user_preferences, ingredients, processing_metadata,
                   feature_weights, clock>>
    /\ UNCHANGED <<normVars, preVars, enVars, anVars, sgVars, trainVars, calls, requests>>

\* lines 207-272
RecommendOk ==
    /\ rec_pc = "call"
    /\ recipes # <<>>
    /\ ~RecommendRaises(recipes, user_preferences, ingredients)
    /\ \E cols \in {ScoreColumns(recipes, user_preferences, ingredients)} :
       \E ai \in {RelevanceScores(recipes, cols, feature_weights)} :
       \E p \in SortOrders(ai) :
           /\ df_index' = p
           /\ enhanced_recipes' =
                  [k \in 1..Len(recipes) |-> ToDictRecord(recipes, cols, ai, p, k)]
    /\ \E elapsed \in 0..MaxElapsed :
           /\ clock' = clock + elapsed
           /\ processing_metadata' =
                  RecommendMetadata(processing_metadata, clock', Len(recipes), elapsed)
    /\ rec_pc' = "ok"
    /\ UNCHANGED <<recipes, user_preferences, ingredients, feature_weights>>
    /\ UNCHANGED <<normVars, preVars, enVars, anVars, sgVars, trainVars, calls, requests>>

recommend == RecommendEmpty \/ RecommendError \/ RecommendOk

(***************************************************************************)
(* preprocessor.py: clean_text and normalize_ingredient                    *)
(*                                                                         *)
(* A character is a one-character string; the two-character strings "n~"   *)
(* and "e'" stand for the non-ASCII letters n-tilde and e-acute, and "deg" *)
(* for the degree sign, a non-ASCII character with no ASCII decomposition; *)
(* "backtick" stands for the grave accent, which a TLA+ string cannot hold.*)
(***************************************************************************)
\* string.punctuation without the hyphen (line 57)
Punctuation ==
    {"!", "\"", "#", "$", "%", "&", "'", "(", ")", "*", "+", ",", ".", "/",
     ":", ";", "<", "=", ">", "?", "@", "[", "\\", "]", "^", "_", "backtick", "{",
     "|", "}", "~"}

\* what \s matches
Whitespace == {" ", "\t", "\n"}

\* what \w matches in text that clean_text has made ASCII
IsWordChar(c) == c \in Range(LowerChars) \cup Range(UpperChars) \cup Digits \cup {"_"}

\* unicodedata.normalize('NFKD', c).encode('ASCII', 'ignore') on one character
AsciiFold(c) ==
    CASE c = "n~" -> <<"n">>
      [] c = "e'" -> <<"e">>
      [] c = "deg" -> <<>>
      [] OTHER -> <<c>>

\* re.sub(r'\s+', ' ', s): every run of whitespace becomes one space
RECURSIVE CollapseFrom(_, _)
CollapseFrom(s, i) ==
    IF i > Len(s) THEN <<>>
    ELSE IF s[i] \in Whitespace
         THEN IF i > 1 /\ s[i - 1] \in Whitespace
              THEN CollapseFrom(s, i + 1)
              ELSE <<" ">> \o CollapseFrom(s, i + 1)
         ELSE <<s[i]>> \o CollapseFrom(s, i + 1)

CollapseWhitespace(s) == CollapseFrom(s, 1)

\* str.strip()
Strip(s) ==
    LET keep == {i \in 1..Len(s) : s[i] \notin Whitespace}
    IN  IF keep = {} THEN <<>>
        ELSE LET lo == CHOOSE i \in keep : \A j \in keep : i <= j
                 hi == CHOOSE i \in keep : \A j \in keep : j <= i
             IN  SubSeq(s, lo, hi)

clean_text(text) ==
    IF text = <<>> THEN <<>>
    ELSE LET lowered == Lower(text)
             ascii == Concat([i \in 1..Len(lowered) |-> AsciiFold(lowered[i])])
             nopunct == [i \in 1..Len(ascii) |->
                            IF ascii[i] \in Punctuation THEN " " ELSE ascii[i]]
         IN  Strip(CollapseWhitespace(nopunct))

\* how many digits start at s[i]
RECURSIVE DigitRun(_, _)
DigitRun(s, i) ==
    IF i <= Len(s) /\ s[i] \in Digits THEN 1 + DigitRun(s, i + 1) ELSE 0

\* the length of the match of \d+\/\d+|\d+\.\d+|\d+ at s[i], 0 when none
QuantityMatch(s, i) ==
    LET d == DigitRun(s, i)
        frac == DigitRun(s, i + d + 1)
    IN  IF d = 0 THEN 0
        ELSE IF i + d <= Len(s) /\ s[i + d] \in {"/", "."} /\ frac > 0
             THEN d + 1 + frac
             ELSE d

\* re.sub(r'\d+\/\d+|\d+\.\d+|\d+', '', s)
RECURSIVE RemoveQuantitiesFrom(_, _)
RemoveQuantitiesFrom(s, i) ==
    IF i > Len(s) THEN <<>>
    ELSE IF QuantityMatch(s, i) > 0
         THEN RemoveQuantitiesFrom(s, i + QuantityMatch(s, i))
         ELSE <<s[i]>> \o RemoveQuantitiesFrom(s, i + 1)

RemoveQuantities(s) == RemoveQuantitiesFrom(s, 1)

\* \bword\b matches at s[i]
WordAt(s, i, word) ==
    /\ MatchAt(s, i, word)
    /\ (i = 1 \/ ~IsWordChar(s[i - 1]))
    /\ (i + Len(word) > Len(s) \/ ~IsWordChar(s[i + Len(word)]))

\* re.sub(rf'\b{word}\b', '', s)
RECURSIVE RemoveWordFrom(_, _, _)
RemoveWordFrom(s, i, word) ==
    IF i > Len(s) THEN <<>>
    ELSE IF WordAt(s, i, word) THEN RemoveWordFrom(s, i + Len(word), word)
    ELSE <<s[i]>> \o RemoveWordFrom(s, i + 1, word)

RemoveWord(s, word) == IF Contains(s, word) THEN RemoveWordFrom(s, 1, word) ELSE s

\* for word in words: s = re.sub(rf'\b{word}\b', '', s)
RECURSIVE RemoveWords(_, _)
RemoveWords(s, words) ==
    IF words = <<>> \/ Len(s) = 0 THEN s
    ELSE RemoveWords(RemoveWord(s, Head(words)), Tail(words))

\* str.replace(original, replacement)
RECURSIVE ReplaceFrom(_, _, _, _)
ReplaceFrom(s, i, original, replacement) ==
    IF i > Len(s) THEN <<>>
    ELSE IF MatchAt(s, i, original)
         THEN replacement \o ReplaceFrom(s, i + Len(original), original, replacement)
         ELSE <<s[i]>> \o ReplaceFrom(s, i + 1, original, replacement)

\* for original, replacement in subs.items():
\*     if original in s: s = s.replace(original, replacement)
RECURSIVE ApplySubstitutions(_, _)
ApplySubstitutions(s, subs) ==
    IF subs = <<>> \/ Len(s) = 0 THEN s
    ELSE ApplySubstitutions(
             IF Contains(s, Head(subs)[1])
             THEN ReplaceFrom(s, 1, Head(subs)[1], Head(subs)[2])
             ELSE s,
             Tail(subs))

\* the first of the phrases that matches at s[i], as its length; 0 when none
RECURSIVE PhraseMatch(_, _, _)
PhraseMatch(s, i, phrases) ==
    IF phrases = <<>> THEN 0
    ELSE IF MatchAt(s, i, Head(phrases)) THEN Len(Head(phrases))
    ELSE PhraseMatch(s, i, Tail(phrases))

\* re.sub(r'to taste|as needed|for serving|for garnish', '', s)
RECURSIVE RemovePhrasesFrom(_, _, _)
RemovePhrasesFrom(s, i, phrases) ==
    IF i > Len(s) THEN <<>>
    ELSE IF PhraseMatch(s, i, phrases) > 0
         THEN RemovePhrasesFrom(s, i + PhraseMatch(s, i, phrases), phrases)
         ELSE <<s[i]>> \o RemovePhrasesFrom(s, i + 1, phrases)

UNITS == <<
    <<"c","u","p">>,
    <<"c","u","p","s">>,
    <<"t","a","b","l","e","s","p","o","o","n">>,
    <<"t","a","b","l","e","s","p","o","o","n","s">>,
    <<"t","b","s","p">>,
    <<"t","e","a","s","p","o","o","n">>,
    <<"t","e","a","s","p","o","o","n","s">>,
    <<"t","s","p">>,
    <<"o","u","n","c","e">>,
    <<"o","u","n","c","e","s">>,
    <<"o","z">>,
    <<"p","o","u","n","d">>,
    <<"p","o","u","n","d","s">>,
    <<"l","b">>,
    <<"l","b","s">>,
    <<"g","r","a","m">>,
    <<"g","r","a","m","s">>,
    <<"g">>,
    <<"k","i","l","o","g","r","a","m">>,
    <<"k","i","l","o","g","r","a","m","s">>,
    <<"k","g">>,
    <<"m","l">>,
    <<"m","i","l","l","i","l","i","t","e","r">>,
    <<"m","i","l","l","i","l","i","t","e","r","s">>,
    <<"l","i","t","e","r">>,
    <<"l","i","t","e","r","s">>,
    <<"p","i","n","c","h">>,
    <<"p","i","n","c","h","e","s">>,
    <<"d","a","s","h">>,
    <<"d","a","s","h","e","s">>,
    <<"p","i","e","c","e">>,
    <<"p","i","e","c","e","s">>,
    <<"s","l","i","c","e">>,
    <<"s","l","i","c","e","s">>,
    <<"b","u","n","c","h">>,
    <<"b","u","n","c","h","e","s">>,
    <<"c","l","o","v","e">>,
    <<"c","l","o","v","e","s">>,
    <<"s","p","r","i","g">>,
    <<"s","p","r","i","g","s">>,
    <<"s","t","a","l","k">>,
    <<"s","t","a","l","k","s">> >>

INGREDIENT_SUBSTITUTIONS == <<
    <<<<"t","o","m","a","t","o","e","s">>, <<"t","o","m","a","t","o">>>>,
    <<<<"o","n","i","o","n","s">>, <<"o","n","i","o","n">>>>,
    <<<<"p","o","t","a","t","o","e","s">>, <<"p","o","t","a","t","o">>>>,
    <<<<"c","a","r","r","o","t","s">>, <<"c","a","r","r","o","t">>>>,
    <<<<"f","r","e","s","h"," ","g","a","r","l","i","c">>, <<"g","a","r","l","i","c">>>>,
    <<<<"m","i","n","c","e","d"," ","g","a","r","l","i","c">>, <<"g","a","r","l","i","c">>>>,
    <<<<"g","a","r","l","i","c"," ","c","l","o","v","e","s">>, <<"g","a","r","l","i","c">>>>,
    <<<<"o","l","i","v","e"," ","o","i","l">>, <<"o","i","l">>>>,
    <<<<"v","e","g","e","t","a","b","l","e"," ","o","i","l">>, <<"o","i","l">>>>,
    <<<<"c","a","n","o","l","a"," ","o","i","l">>, <<"o","i","l">>>>,
    <<<<"b","e","l","l"," ","p","e","p","p","e","r","s">>, <<"b","e","l","l"," ","p","e","p","p","e","r">>>>,
    <<<<"r","e","d"," ","p","e","p","p","e","r">>, <<"b","e","l","l"," ","p","e","p","p","e","r">>>>,
    <<<<"g","r","e","e","n"," ","p","e","p","p","e","r">>, <<"b","e","l","l"," ","p","e","p","p","e","r">>>> >>

cooking_terms == <<
    <<"f","r","e","s","h">>,
    <<"c","h","o","p","p","e","d">>,
    <<"d","i","c","e","d">>,
    <<"m","i","n","c","e","d">>,
    <<"s","l","i","c","e","d">>,
    <<"g","r","a","t","e","d">>,
    <<"c","r","u","s","h","e","d">>,
    <<"p","e","e","l","e","d">>,
    <<"c","u","b","e","d">>,
    <<"j","u","l","i","e","n","n","e","d">>,
    <<"f","r","o","z","e","n">>,
    <<"c","a","n","n","e","d">>,
    <<"d","r","i","e","d">> >>

boilerplate_phrases == <<
    <<"t","o"," ","t","a","s","t","e">>,
    <<"a","s"," ","n","e","e","d","e","d">>,
    <<"f","o","r"," ","s","e","r","v","i","n","g">>,
    <<"f","o","r"," ","g","a","r","n","i","s","h">> >>

\* the stages of normalize_ingredient after clean_text, lines 80-102
StripQuantities(s) == RemoveQuantities(s)
StripUnits(s) == RemoveWords(s, UNITS)
Substitute(s) == ApplySubstitutions(s, INGREDIENT_SUBSTITUTIONS)
StripCookingTerms(s) == RemoveWords(s, cooking_terms)
StripPhrases(s) == RemovePhrasesFrom(s, 1, boilerplate_phrases)

normalize_ingredient(raw) ==
    IF raw = <<>> THEN <<>>
    ELSE Strip(CollapseWhitespace(
             StripPhrases(StripCookingTerms(Substitute(StripUnits(
                 StripQuantities(clean_text(raw))))))))

KeepAllFrom(xs, i, seen) == SubSeq(xs, i, Len(xs))

\* the second loop of preprocess_ingredients, lines 131-136
RECURSIVE UniqueFrom(_, _, _)
UniqueFrom(xs, i, seen) ==
    IF i > Len(xs) THEN <<>>
    ELSE IF xs[i] \in seen THEN UniqueFrom(xs, i + 1, seen)
    ELSE <<xs[i]>> \o UniqueFrom(xs, i + 1, seen \cup {xs[i]})

\* line 127: if normalized and len(normalized) > 1
Kept(x) == x # <<>> /\ Len(x) > 1

\* preprocess_ingredients on a list of strings (str(ing) is ing).  The except
\* branch (lines 140-143) is not reachable from a list of strings.
preprocess_ingredients(ings) ==
    IF ings = <<>> THEN <<>>
    ELSE LET all == [i \in 1..Len(ings) |-> normalize_ingredient(ings[i])]
         IN  UniqueFrom(SelectSeq(all, Kept), 1, {})

(***************************************************************************)
(* Actions of the text operations                                          *)
(***************************************************************************)
NormalizeOnce ==
    /\ norm_pc = "call"
    /\ normalized' = normalize_ingredient(ingredient)
    /\ norm_pc' = "once"
    /\ UNCHANGED <<ingredient, renormalized>>
    /\ UNCHANGED <<recVars, preVars, enVars, anVars, sgVars, trainVars, calls, requests>>

NormalizeTwice ==
    /\ norm_pc = "once"
    /\ renormalized' = normalize_ingredient(normalized)
    /\ norm_pc' = "twice"
    /\ UNCHANGED <<ingredient, normalized>>
    /\ UNCHANGED <<recVars, preVars, enVars, anVars, sgVars, trainVars, calls, requests>>

Preprocess ==
    /\ pre_pc = "call"
    /\ processed' = preprocess_ingredients(raw_ingredients)
    /\ pre_pc' = "returned"
    /\ UNCHANGED raw_ingredients
    /\ UNCHANGED <<recVars, normVars, enVars, anVars, sgVars, trainVars, calls, requests>>

(***************************************************************************)
(* enrich_recipe_data and generate_tags.  A recipe is a function from its  *)
(* keys to values; the caller's records live in heap, a sequence indexed   *)
(* by object identity, and a list of recipes is a sequence of identities.  *)
(* The ingredients parameter of enrich_recipe_data is never read.          *)
(***************************************************************************)
meat_ingredients ==
    { <<"c","h","i","c","k","e","n">>,
      <<"b","e","e","f">>,
      <<"p","o","r","k">>,
      <<"l","a","m","b">>,
      <<"t","u","r","k","e","y">>,
      <<"f","i","s","h">>,
      <<"s","a","l","m","o","n">>,
      <<"t","u","n","a">>,
      <<"s","h","r","i","m","p">>,
      <<"b","a","c","o","n">>,
      <<"h","a","m">>,
      <<"s","a","u","s","a","g","e">> }
animal_products ==
    { <<"m","i","l","k">>,
      <<"c","h","e","e","s","e">>,
      <<"c","r","e","a","m">>,
      <<"y","o","g","u","r","t">>,
      <<"b","u","t","t","e","r">>,
      <<"e","g","g">>,
      <<"h","o","n","e","y">>,
      <<"m","a","y","o">>,
      <<"m","a","y","o","n","n","a","i","s","e">> }
breakfast_words ==
    { <<"b","r","e","a","k","f","a","s","t">>,
      <<"p","a","n","c","a","k","e">>,
      <<"o","a","t","m","e","a","l">>,
      <<"c","e","r","e","a","l">> }
lunch_words ==
    { <<"s","a","n","d","w","i","c","h">>,
      <<"w","r","a","p">>,
      <<"s","a","l","a","d">> }
dinner_words ==
    { <<"d","i","n","n","e","r">>,
      <<"r","o","a","s","t">>,
      <<"s","t","e","a","k">> }
dessert_words ==
    { <<"d","e","s","s","e","r","t">>,
      <<"c","a","k","e">>,
      <<"c","o","o","k","i","e">>,
      <<"s","w","e","e","t">>,
      <<"c","h","o","c","o","l","a","t","e">>,
      <<"i","c","e"," ","c","r","e","a","m">> }
grilled_words ==
    { <<"g","r","i","l","l">>,
      <<"g","r","i","l","l","e","d">>,
      <<"b","b","q">>,
      <<"b","a","r","b","e","c","u","e">> }
baked_words ==
    { <<"b","a","k","e">>,
      <<"b","a","k","e","d">>,
      <<"r","o","a","s","t">>,
      <<"r","o","a","s","t","e","d">> }
fried_words ==
    { <<"f","r","y">>,
      <<"f","r","i","e","d">>,
      <<"d","e","e","p"," ","f","r","i","e","d">> }
cuisine_keywords ==
    << <<<<"i","t","a","l","i","a","n">>,
          { <<"p","a","s","t","a">>,
            <<"p","i","z","z","a">>,
            <<"r","i","s","o","t","t","o">>,
            <<"i","t","a","l","i","a","n">> }>>,
       <<<<"m","e","x","i","c","a","n">>,
          { <<"t","a","c","o">>,
            <<"b","u","r","r","i","t","o">>,
            <<"q","u","e","s","a","d","i","l","l","a">>,
            <<"m","e","x","i","c","a","n">>,
            <<"s","a","l","s","a">> }>>,
       <<<<"a","s","i","a","n">>,
          { <<"s","t","i","r"," ","f","r","y">>,
            <<"t","o","f","u">>,
            <<"s","o","y"," ","s","a","u","c","e">>,
            <<"a","s","i","a","n">> }>>,
       <<<<"i","n","d","i","a","n">>,
          { <<"c","u","r","r","y">>,
            <<"m","a","s","a","l","a">>,
            <<"i","n","d","i","a","n">> }>>,
       <<<<"m","e","d","i","t","e","r","r","a","n","e","a","n">>,
          { <<"m","e","d","i","t","e","r","r","a","n","e","a","n">>,
            <<"g","r","e","e","k">>,
            <<"f","e","t","a">>,
            <<"o","l","i","v","e">> }>> >>

t_vegetarian == <<"v","e","g","e","t","a","r","i","a","n">>
t_breakfast == <<"b","r","e","a","k","f","a","s","t">>
t_lunch == <<"l","u","n","c","h">>
t_dinner == <<"d","i","n","n","e","r">>
t_dessert == <<"d","e","s","s","e","r","t">>
t_grilled == <<"g","r","i","l","l","e","d">>
t_baked == <<"b","a","k","e","d">>
t_fried == <<"f","r","i","e","d">>

\* bool(value)
Truthy(v) ==
    CASE v.type = "list" -> v.items # <<>>
      [] v.type = "int" -> v.value # 0
      [] v.type = "str" -> v.chars # <<>>

\* what iterating a value yields, and what len() counts: the elements of a
\* list, the characters of a str
Elements(v) ==
    IF v.type = "list" THEN v.items
    ELSE [i \in 1..Len(v.chars) |-> <<v.chars[i]>>]

\* key in recipe and recipe[key]
Populated(recipe, key) == key \in DOMAIN recipe /\ Truthy(recipe[key])

AnyIn(words, text) == \E w \in words : Contains(text, w)

\* ' '.join(str(ing) for ing in ...) over a list of strings
IngredientsStr(items) == Join(items, <<" ">>)

\* the set built by generate_tags; recipe.get('ingredients', []) is a list here
generate_tags(recipe) ==
    LET title == Get(recipe, "title", <<>>)
        items == IF "ingredients" \in DOMAIN recipe
                 THEN Elements(recipe["ingredients"]) ELSE <<>>
        title_and_ingredients == Lower(title \o <<" ">> \o IngredientsStr(items))
        cuisine == IF "cuisine" \in DOMAIN recipe /\ recipe["cuisine"] # <<>>
                   THEN {Strip(recipe["cuisine"])} ELSE {}
        vegetarian == IF ~AnyIn(meat_ingredients, title_and_ingredients)
                      THEN {t_vegetarian} \cup
                           (IF ~AnyIn(animal_products, title_and_ingredients)
                            THEN {s_vegan} ELSE {})
                      ELSE {}
        meal == IF AnyIn(breakfast_words, title_and_ingredients) THEN {t_breakfast}
                ELSE IF AnyIn(lunch_words, title_and_ingredients) THEN {t_lunch}
                ELSE IF AnyIn(dinner_words, title_and_ingredients) THEN {t_dinner}
                ELSE {}
        dessert == IF AnyIn(dessert_words, title_and_ingredients) THEN {t_dessert} ELSE {}
        method == IF AnyIn(grilled_words, title_and_ingredients) THEN {t_grilled}
                  ELSE IF AnyIn(baked_words, title_and_ingredients) THEN {t_baked}
                  ELSE IF AnyIn(fried_words, title_and_ingredients) THEN {t_fried}
                  ELSE {}
        cuisines == {cuisine_keywords[k][1] : k \in
                        {k \in 1..Len(cuisine_keywords) :
                            AnyIn(cuisine_keywords[k][2], title_and_ingredients)}}
    IN  cuisine \cup vegetarian \cup meal \cup dessert \cup method \cup cuisines

\* list(tags): a set is listed in an order the caller cannot rely on
ListingsOf(S) == {l \in [1..Cardinality(S) -> S] : Range(l) = S}

\* len(re.split(r'[.!?]+', text)): one more than the runs of terminators
Terminators == {".", "!", "?"}
RECURSIVE SplitCountFrom(_, _)
SplitCountFrom(s, i) ==
    IF i > Len(s) THEN 1
    ELSE IF s[i] \in Terminators /\ (i = Len(s) \/ s[i + 1] \notin Terminators)
         THEN 1 + SplitCountFrom(s, i + 1)
         ELSE SplitCountFrom(s, i + 1)

\* min(count / cap, 1.0) * 0.5
ContributionUncapped(count, cap) == RMul(Rat(count, cap), Rat(1, 2))
Contribution(count, cap) == RMul(RMin(Rat(count, cap), One), Rat(1, 2))

IngredientCap == 15
StepCap == 10

\* complexity_score of lines 173-189; len() of the ingredients is defined
\* for a list only
complexity_score(recipe) ==
    LET from_ingredients ==
            IF Populated(recipe, "ingredients")
            THEN Contribution(Len(Elements(recipe["ingredients"])), IngredientCap)
            ELSE Zero
        from_steps ==
            IF Populated(recipe, "instructions")
            THEN LET step_count ==
                         IF recipe["instructions"].type = "list"
                         THEN Len(recipe["instructions"].items)
                         ELSE SplitCountFrom(recipe["instructions"].chars, 1)
                 IN  Contribution(step_count, StepCap)
            ELSE Zero
    IN  RAdd(from_ingredients, from_steps)

\* int(20 + complexity_score * 40)
BaseMinutes == 20
MinutesSpan == 40
EstimatedTime(score) == (BaseMinutes * score[2] + MinutesSpan * score[1]) \div score[2]

NeedsTime(recipe) ==
    "cooking_time_minutes" \notin DOMAIN recipe \/ recipe["cooking_time_minutes"] = 0
NeedsTags(recipe) == "tags" \notin DOMAIN recipe \/ recipe["tags"] = <<>>

\* hash() of a str: 0 for the empty string, otherwise fixed by the characters
\* and the seed of the process
Alphabet == LowerChars \o UpperChars \o
            <<"0","1","2","3","4","5","6","7","8","9"," ",".","!","?",",","-">>
Ord(c) == CHOOSE k \in 1..Len(Alphabet) : Alphabet[k] = c
RECURSIVE HashFrom(_, _, _)
HashFrom(s, i, h) ==
    IF i > Len(s) THEN h
    ELSE HashFrom(s, i + 1, (h * 31 + Ord(s[i])) % HashModulus)
Hash(seed, s) ==
    IF s = <<>> THEN 0
    ELSE LET h == HashFrom(s, 1, seed + 1)
         IN  IF 2 * h > HashModulus THEN h - HashModulus ELSE h

\* str() of an int
DigitChars == <<"0","1","2","3","4","5","6","7","8","9">>
RECURSIVE NatToStr(_)
NatToStr(n) ==
    IF n < 10 THEN <<DigitChars[n + 1]>>
    ELSE NatToStr(n \div 10) \o <<DigitChars[(n % 10) + 1]>>
IntToStr(n) == IF n < 0 THEN <<"-">> \o NatToStr(-n) ELSE NatToStr(n)

\* line 206
HashKeysPopulated(recipe) ==
    /\ Populated(recipe, "ingredients")
    /\ "title" \in DOMAIN recipe
    /\ recipe["title"] # <<>>
HasHashKeys(recipe) == "ingredients" \in DOMAIN recipe /\ "title" \in DOMAIN recipe

recipe_hash(seed, recipe) ==
    IntToStr(Hash(seed, recipe["title"] \o IngredientsStr(Elements(recipe["ingredients"]))))

\* the iteration raises TypeError when one recipe's ingredients is a number:
\* at len() if it is truthy, in generate_tags if tags are to be generated,
\* at the join of line 207 if there is a title
RecipeRaises(recipe) ==
    /\ "ingredients" \in DOMAIN recipe
    /\ recipe["ingredients"].type = "int"
    /\ \/ Truthy(recipe["ingredients"])
       \/ NeedsTags(recipe)
       \/ "title" \in DOMAIN recipe

\* the fields one iteration of the loop adds to the copy; tag_list is the
\* listing of the generated tag set
DerivedFields(recipe, tag_list, seed) ==
    LET score == complexity_score(recipe)
        e1 == IF Populated(recipe, "ingredients")
              THEN [normalized_ingredients |->
                        ListOf(preprocess_ingredients(Elements(recipe["ingredients"])))]
              ELSE <<>>
        e2 == [complexity |-> RMin(score, One)]
        e3 == IF NeedsTime(recipe)
              THEN [cooking_time_minutes |-> EstimatedTime(score), estimated_time |-> TRUE]
              ELSE <<>>
        e4 == IF NeedsTags(recipe) THEN [tags |-> tag_list] ELSE <<>>
        e5 == IF HasHashKeys(recipe)
              THEN [recipe_hash |-> recipe_hash(seed, recipe)]
              ELSE <<>>
    IN  e5 @@ e4 @@ e3 @@ e2 @@ e1

Enriched(recipe, tag_list, seed) == DerivedFields(recipe, tag_list, seed) @@ recipe

TagListings(recipe) ==
    IF NeedsTags(recipe) THEN ListingsOf(generate_tags(recipe)) ELSE {<<>>}

Top(m, S) == CHOOSE t \in S \cup {m} : \A u \in S \cup {m} : u <= t

\* recipe.copy() makes a new object; the identity it gets
InPlace(h, i) == i
CopyOf(h, i) == Len(h) + i

EnrichEmpty ==
    /\ en_pc = "call"
    /\ en_recipes = <<>>
    /\ enriched' = <<>>
    /\ en_pc' = "empty"
    /\ UNCHANGED <<en_recipes, heap, hash_seed>>
    /\ UNCHANGED <<recVars, normVars, preVars, anVars, sgVars, trainVars, calls, requests>>

EnrichError ==
    /\ en_pc = "call"
    /\ en_recipes # <<>>
    /\ \E i \in 1..Len(en_recipes) : RecipeRaises(heap[en_recipes[i]])
    /\ enriched' = en_recipes
    /\ en_pc' = "error"
    /\ UNCHANGED <<en_recipes, heap, hash_seed>>
    /\ UNCHANGED <<recVars, normVars, preVars, anVars, sgVars, trainVars, calls, requests>>

EnrichOk ==
    /\ en_pc = "call"
    /\ en_recipes # <<>>
    /\ \A i \in 1..Len(en_recipes) : ~RecipeRaises(heap[en_recipes[i]])
    /\ LET n == Len(en_recipes)
       IN  \E listings \in {[i \in 1..n |-> TagListings(heap[en_recipes[i]])]} :
           \E tag_lists \in [1..n -> UNION Range(listings)] :
               /\ \A i \in 1..n : tag_lists[i] \in listings[i]
               /\ \E objs \in {[i \in 1..n |->
                                  Enriched(heap[en_recipes[i]], tag_lists[i], hash_seed)]} :
                      /\ heap' = [k \in 1..Top(Len(heap), {CopyOf(heap, i) : i \in 1..n}) |->
                                     IF \E i \in 1..n : CopyOf(heap, i) = k
                                     THEN objs[CHOOSE i \in 1..n : CopyOf(heap, i) = k]
                                     ELSE heap[k]]
                      /\ enriched' = [i \in 1..n |-> CopyOf(heap, i)]
    /\ en_pc' = "ok"
    /\ UNCHANGED <<en_recipes, hash_seed>>
    /\ UNCHANGED <<recVars, normVars, preVars, anVars, sgVars, trainVars, calls, requests>>

enrich_recipe_data == EnrichEmpty \/ EnrichError \/ EnrichOk

(***************************************************************************)
(* RecipeRecommender.analyze_ingredients.  The two tables are sequences of *)
(* <<name, terms>> in the order of the dict literals; "A~+-" stands for    *)
(* the two non-ASCII characters the source has inside its jalapeno term.   *)
(***************************************************************************)
categories ==
    << <<"Italian",
          << <<"p","a","s","t","a">>,
             <<"t","o","m","a","t","o">>,
             <<"b","a","s","i","l">>,
             <<"m","o","z","z","a","r","e","l","l","a">>,
             <<"p","a","r","m","e","s","a","n">>,
             <<"o","l","i","v","e"," ","o","i","l">>,
             <<"g","a","r","l","i","c">> >> >>,
       <<"Mexican",
          << <<"t","o","r","t","i","l","l","a">>,
             <<"b","e","a","n","s">>,
             <<"a","v","o","c","a","d","o">>,
             <<"c","i","l","a","n","t","r","o">>,
             <<"l","i","m","e">>,
             <<"j","a","l","a","p","e","A~+-","o">>,
             <<"c","o","r","n">> >> >>,
       <<"Asian",
          << <<"s","o","y"," ","s","a","u","c","e">>,
             <<"g","i","n","g","e","r">>,
             <<"r","i","c","e">>,
             <<"s","e","s","a","m","e"," ","o","i","l">>,
             <<"t","o","f","u">>,
             <<"f","i","s","h"," ","s","a","u","c","e">>,
             <<"r","i","c","e"," ","v","i","n","e","g","a","r">> >> >>,
       <<"Mediterranean",
          << <<"f","e","t","a">>,
             <<"c","u","c","u","m","b","e","r">>,
             <<"c","h","i","c","k","p","e","a","s">>,
             <<"l","e","m","o","n">>,
             <<"o","l","i","v","e">>,
             <<"t","a","h","i","n","i">>,
             <<"m","i","n","t">> >> >>,
       <<"American",
          << <<"g","r","o","u","n","d"," ","b","e","e","f">>,
             <<"p","o","t","a","t","o">>,
             <<"c","o","r","n">>,
             <<"b","r","e","a","d">>,
             <<"c","h","e","d","d","a","r">>,
             <<"b","a","c","o","n">>,
             <<"k","e","t","c","h","u","p">> >> >>,
       <<"Dessert",
          << <<"s","u","g","a","r">>,
             <<"f","l","o","u","r">>,
             <<"v","a","n","i","l","l","a">>,
             <<"c","h","o","c","o","l","a","t","e">>,
             <<"b","u","t","t","e","r">>,
             <<"e","g","g">>,
             <<"c","r","e","a","m">> >> >> >>

food_groups ==
    << <<"Proteins",
          << <<"c","h","i","c","k","e","n">>,
             <<"b","e","e","f">>,
             <<"p","o","r","k">>,
             <<"t","o","f","u">>,
             <<"f","i","s","h">>,
             <<"s","h","r","i","m","p">>,
             <<"e","g","g">>,
             <<"b","e","a","n","s">>,
             <<"l","e","n","t","i","l","s">> >> >>,
       <<"Vegetables",
          << <<"o","n","i","o","n">>,
             <<"t","o","m","a","t","o">>,
             <<"l","e","t","t","u","c","e">>,
             <<"c","a","r","r","o","t">>,
             <<"b","r","o","c","c","o","l","i">>,
             <<"p","e","p","p","e","r">>,
             <<"s","p","i","n","a","c","h">>,
             <<"z","u","c","c","h","i","n","i">> >> >>,
       <<"Fruits",
          << <<"a","p","p","l","e">>,
             <<"b","a","n","a","n","a">>,
             <<"o","r","a","n","g","e">>,
             <<"b","e","r","r","i","e","s">>,
             <<"m","a","n","g","o">>,
             <<"l","e","m","o","n">>,
             <<"l","i","m","e">> >> >>,
       <<"Grains",
          << <<"r","i","c","e">>,
             <<"p","a","s","t","a">>,
             <<"b","r","e","a","d">>,
             <<"q","u","i","n","o","a">>,
             <<"o","a","t","s">>,
             <<"f","l","o","u","r">>,
             <<"t","o","r","t","i","l","l","a">> >> >>,
       <<"Dairy",
          << <<"m","i","l","k">>,
             <<"c","h","e","e","s","e">>,
             <<"y","o","g","u","r","t">>,
             <<"c","r","e","a","m">>,
             <<"b","u","t","t","e","r">> >> >>,
       <<"Seasonings",
          << <<"s","a","l","t">>,
             <<"p","e","p","p","e","r">>,
             <<"g","a","r","l","i","c">>,
             <<"h","e","r","b">>,
             <<"s","p","i","c","e">>,
             <<"s","a","u","c","e">> >> >> >>

\* [str(ing).lower() for ing in ingredients]
LowerAll(ings) == [i \in 1..Len(ings) |-> Lower(ings[i])]

\* any(item in str(ing).lower() for ing in ingredients)
InAnyIngredient(item, ings_lower) ==
    \E i \in 1..Len(ings_lower) : Contains(ings_lower[i], item)

\* category_scores[category], lines 389-391
CategoryScore(k, ings_lower) ==
    LET terms == categories[k][2]
    IN  Rat(Cardinality({t \in 1..Len(terms) : InAnyIngredient(terms[t], ings_lower)}),
            Len(terms))

category_scores(ings_lower) ==
    [k \in 1..Len(categories) |-> CategoryScore(k, ings_lower)]

\* sorted(..., reverse=True) keeps the dict order among equal scores: the
\* position of entry k in sorted_categories
SortedPosition(scores, k) ==
    1 + Cardinality({j \in 1..Len(scores) :
                        \/ RLess(scores[k], scores[j])
                        \/ (scores[j] = scores[k] /\ j < k)})

sorted_categories(scores) ==
    [q \in 1..Len(scores) |->
        CHOOSE k \in 1..Len(scores) : SortedPosition(scores, k) = q]

\* round(score, 2): to the nearest multiple of 1/100, halves to even
MatchScoreDigits == 2
Round2(x) ==
    LET qr == LongDiv(x[1] \div x[2], x[1] % x[2], x[2], MatchScoreDigits)
        up == \/ 2 * qr[2] > x[2]
              \/ (2 * qr[2] = x[2] /\ qr[1] % 2 = 1)
    IN  Rat(IF up THEN qr[1] + 1 ELSE qr[1], Pow10(MatchScoreDigits))

\* score > 0.15
Threshold == Rat(15, 100)
SuitableIfPositive(score) == RLess(Zero, score)
Suitable(score) == RLess(Threshold, score)

\* lines 401-405: the entries of sorted_categories that pass the threshold
RECURSIVE SuitableFrom(_, _, _)
SuitableFrom(order, scores, q) ==
    IF q > Len(order) THEN <<>>
    ELSE (IF Suitable(scores[order[q]])
          THEN <<[name |-> categories[order[q]][1],
                  match_score |-> Round2(scores[order[q]])]>>
          ELSE <<>>) \o SuitableFrom(order, scores, q + 1)

suitable_categories(scores) == SuitableFrom(sorted_categories(scores), scores, 1)

LastGroupOf(ing_lower) ==
    LET hits == {g \in 1..Len(food_groups) :
                    \E w \in 1..Len(food_groups[g][2]) :
                        Contains(ing_lower, food_groups[g][2][w])}
    IN  IF hits = {} THEN "Other"
        ELSE food_groups[CHOOSE g \in hits : \A h \in hits : h <= g][1]

\* lines 419-430: the group an ingredient is appended to
GroupOf(ing_lower) ==
    LET hits == {g \in 1..Len(food_groups) :
                    \E w \in 1..Len(food_groups[g][2]) :
                        Contains(ing_lower, food_groups[g][2][w])}
    IN  IF hits = {} THEN "Other"
        ELSE food_groups[CHOOSE g \in hits : \A h \in hits : g <= h][1]

\* the list built for one group, in the order of the appends
RECURSIVE MembersFrom(_, _, _, _)
MembersFrom(ings, assigned, i, group) ==
    IF i > Len(ings) THEN <<>>
    ELSE (IF assigned[i] = group THEN <<ings[i]>> ELSE <<>>)
             \o MembersFrom(ings, assigned, i + 1, group)

\* lines 417-433: the groups that received an ingredient; assigned[i] is the
\* group ingredient i went to
ingredient_groups(ings, assigned) ==
    [n \in Range(assigned) |-> MembersFrom(ings, assigned, 1, n)]

AnalyzeEmpty ==
    /\ an_pc = "call"
    /\ an_ingredients = <<>>
    /\ analysis' = [suitable_categories |-> <<>>, ingredient_groups |-> <<>>]
    /\ an_pc' = "empty"
    /\ UNCHANGED an_ingredients
    /\ UNCHANGED <<recVars, normVars, preVars, enVars, sgVars, trainVars, calls, requests>>

AnalyzeOk ==
    /\ an_pc = "call"
    /\ an_ingredients # <<>>
    /\ \E ings_lower \in {LowerAll(an_ingredients)} :
       \E scores \in {category_scores(ings_lower)} :
       \E assigned \in {[i \in 1..Len(ings_lower) |-> GroupOf(ings_lower[i])]} :
           analysis' = [suitable_categories |-> suitable_categories(scores),
                        ingredient_groups |-> ingredient_groups(an_ingredients, assigned)]
    /\ an_pc' = "ok"
    /\ UNCHANGED an_ingredients
    /\ UNCHANGED <<recVars, normVars, preVars, enVars, sgVars, trainVars, calls, requests>>

analyze_ingredients == AnalyzeEmpty \/ AnalyzeOk

(***************************************************************************)
(* RecipeRecommender.suggest_additional_ingredients.  pairings is the      *)
(* sequence of <<key, pairs>> in the order of the dict literal.            *)
(***************************************************************************)
pairings ==
    << <<<<"t","o","m","a","t","o">>,
          << <<"b","a","s","i","l">>,
             <<"m","o","z","z","a","r","e","l","l","a">>,
             <<"o","l","i","v","e"," ","o","i","l">>,
             <<"g","a","r","l","i","c">>,
             <<"o","n","i","o","n">> >> >>,
       <<<<"c","h","i","c","k","e","n">>,
          << <<"g","a","r","l","i","c">>,
             <<"l","e","m","o","n">>,
             <<"r","o","s","e","m","a","r","y">>,
             <<"t","h","y","m","e">>,
             <<"o","n","i","o","n">>,
             <<"p","o","t","a","t","o">> >> >>,
       <<<<"b","e","e","f">>,
          << <<"o","n","i","o","n">>,
             <<"g","a","r","l","i","c">>,
             <<"m","u","s","h","r","o","o","m">>,
             <<"c","a","r","r","o","t">>,
             <<"p","o","t","a","t","o">>,
             <<"r","e","d"," ","w","i","n","e">> >> >>,
       <<<<"p","a","s","t","a">>,
          << <<"t","o","m","a","t","o"," ","s","a","u","c","e">>,
             <<"g","a","r","l","i","c">>,
             <<"p","a","r","m","e","s","a","n">>,
             <<"o","l","i","v","e"," ","o","i","l">>,
             <<"b","a","s","i","l">> >> >>,
       <<<<"r","i","c","e">>,
          << <<"s","o","y"," ","s","a","u","c","e">>,
             <<"e","g","g">>,
             <<"p","e","a","s">>,
             <<"c","a","r","r","o","t">>,
             <<"o","n","i","o","n">>,
             <<"g","a","r","l","i","c">> >> >>,
       <<<<"p","o","t","a","t","o">>,
          << <<"b","u","t","t","e","r">>,
             <<"c","h","e","e","s","e">>,
             <<"b","a","c","o","n">>,
             <<"s","o","u","r"," ","c","r","e","a","m">>,
             <<"g","a","r","l","i","c">>,
             <<"r","o","s","e","m","a","r","y">> >> >>,
       <<<<"f","i","s","h">>,
          << <<"l","e","m","o","n">>,
             <<"b","u","t","t","e","r">>,
             <<"g","a","r","l","i","c">>,
             <<"d","i","l","l">>,
             <<"o","l","i","v","e"," ","o","i","l">>,
             <<"c","a","p","e","r","s">> >> >> >>

\* line 471: the pairs of key k that ingredient i proposes
ProposedBy(ings_lower, i, k) ==
    IF Contains(ings_lower[i], pairings[k][1])
    THEN SelectSeq(pairings[k][2],
                   LAMBDA pair : /\ ~Contains(ings_lower[i], pair)
                                 /\ ~InAnyIngredient(pair, ings_lower))
    ELSE <<>>

\* the pairs in the order the loops of lines 465-474 count them
Proposals(ings_lower) ==
    Concat([i \in 1..Len(ings_lower) |->
               Concat([k \in 1..Len(pairings) |-> ProposedBy(ings_lower, i, k)])])

\* suggestions[pair] after the loops
Tally(proposals, pair) == Cardinality({e \in 1..Len(proposals) : proposals[e] = pair})

\* sorted(..., reverse=True) keeps the insertion order among equal counts:
\* the position of key k of the dict in sorted_suggestions
SuggestionPositionTiesReversed(counts, k) ==
    1 + Cardinality({j \in 1..Len(counts) :
                        \/ counts[j] > counts[k]
                        \/ (counts[j] = counts[k] /\ j > k)})
SuggestionPosition(counts, k) ==
    1 + Cardinality({j \in 1..Len(counts) :
                        \/ counts[j] > counts[k]
                        \/ (counts[j] = counts[k] /\ j < k)})

\* [:5]
TopN == 5

\* lines 477-483
sorted_suggestions(proposals) ==
    LET keys == UniqueFrom(proposals, 1, {})
        counts == [k \in 1..Len(keys) |-> Tally(proposals, keys[k])]
        n == IF Len(keys) < TopN THEN Len(keys) ELSE TopN
    IN  [q \in 1..n |->
            keys[CHOOSE k \in 1..Len(keys) : SuggestionPosition(counts, k) = q]]

SuggestEmpty ==
    /\ sg_pc = "call"
    /\ sg_ingredients = <<>>
    /\ suggestions' = <<>>
    /\ sg_pc' = "empty"
    /\ UNCHANGED sg_ingredients
    /\ UNCHANGED <<recVars, normVars, preVars, enVars, anVars, trainVars, calls, requests>>

SuggestOk ==
    /\ sg_pc = "call"
    /\ sg_ingredients # <<>>
    /\ \E ings_lower \in {LowerAll(sg_ingredients)} :
       \E proposals \in {Proposals(ings_lower)} :
           suggestions' = sorted_suggestions(proposals)
    /\ sg_pc' = "ok"
    /\ UNCHANGED sg_ingredients
    /\ UNCHANGED <<recVars, normVars, preVars, enVars, anVars, trainVars, calls, requests>>

suggest_additional_ingredients == SuggestEmpty \/ SuggestOk

(***************************************************************************)
(* RecipeRecommender.train.  A fitted vectorizer or scaler is represented  *)
(* by its name in fitted; the text columns of a sample are strings.        *)
(***************************************************************************)
\* df.columns of pd.DataFrame(training_data)
TrainingColumns(data) == UNION {DOMAIN data[i] : i \in 1..Len(data)}

\* df[column].fillna('')
FilledColumn(data, column) ==
    [i \in 1..Len(data) |-> IF column \in DOMAIN data[i] THEN data[i][column] ELSE <<>>]

WordChars == Range(LowerChars) \cup Range(UpperChars) \cup Digits \cup {"_"}

\* TfidfVectorizer.fit raises ValueError (empty vocabulary) when no document
\* holds a token, a run of two or more word characters
HasToken(doc) == \E i \in 1..(Len(doc) - 1) : doc[i] \in WordChars /\ doc[i + 1] \in WordChars
EmptyVocabulary(docs) == \A i \in 1..Len(docs) : ~HasToken(docs[i])

TextMinimum == 10     \* len(df) > 10
CuisineMinimum == 5   \* len(df) > 5

\* lines 143-157: the fits train attempts, in order, as <<model, column>>
FitPlan(data) ==
    SelectSeq(<< <<"tfidf_vectorizer", "recipe_description">>,
                 <<"ingredient_vectorizer", "ingredients">>,
                 <<"cuisine_vectorizer", "cuisine">>,
                 <<"preference_scaler", "user_rating">> >>,
              LAMBDA fit :
                  /\ fit[2] \in TrainingColumns(data)
                  /\ Len(data) > (IF fit[1] = "cuisine_vectorizer"
                                  THEN CuisineMinimum ELSE TextMinimum))

\* the fit raises: a text fit over documents without a token
FitRaises(data, fit) ==
    /\ fit[1] # "preference_scaler"
    /\ EmptyVocabulary(FilledColumn(data, fit[2]))

\* the position in the plan of the first fit that raises, 0 if none does
FirstRaising(data) ==
    LET plan == FitPlan(data)
        raising == {q \in 1..Len(plan) : FitRaises(data, plan[q])}
    IN  IF raising = {} THEN 0 ELSE CHOOSE q \in raising : \A r \in raising : q <= r

\* lines 136-157 raise
TrainRaises(data) == data = <<>> \/ FirstRaising(data) > 0

\* the models fitted by the time train leaves lines 143-157
FittedBy(data) ==
    LET plan == FitPlan(data)
        done == IF data = <<>> THEN 0
                ELSE IF FirstRaising(data) > 0 THEN FirstRaising(data) - 1
                ELSE Len(plan)
    IN  {plan[q][1] : q \in 1..done}

\* lines 121-125: trained less than a day ago and not forced
RecentlyTrained(pm, now, forced) ==
    /\ "last_trained" \in DOMAIN pm
    /\ ~forced
    /\ now - pm["last_trained"] < DayTicks

\* lines 164-169: self.processing_metadata = {...}; both time stamps are
\* datetime.now(), the model version being the same instant to the minute
TrainMetadata(pm, now, n, elapsed) ==
    [last_trained |-> now, training_samples |-> n,
     training_time_seconds |-> elapsed, model_version |-> now]

\* lines 122-131
TrainSkipped ==
    /\ train_pc = "call"
    /\ RecentlyTrained(processing_metadata, clock, force)
    /\ train_result' = [status |-> "skipped",
                        last_trained |-> processing_metadata["last_trained"],
                        message |-> "Models were recently trained"]
    /\ train_pc' = "skipped"
    /\ UNCHANGED <<training_data, force, fitted, saved_models, trained_at>>
    /\ UNCHANGED <<recVars, normVars, preVars, enVars, anVars, sgVars, calls, requests>>

\* lines 181-187: except Exception; the fits made before the raise stay
TrainError ==
    /\ train_pc = "call"
    /\ ~RecentlyTrained(processing_metadata, clock, force)
    /\ TrainRaises(training_data)
    /\ fitted' = fitted \cup FittedBy(training_data)
    /\ train_result' = [status |-> "error", message |-> "Failed to train models"]
    /\ train_pc' = "error"
    /\ UNCHANGED <<training_data, force, saved_models, trained_at>>
    /\ UNCHANGED <<recVars, normVars, preVars, enVars, anVars, sgVars, calls, requests>>

\* lines 134-179; _save_models (lines 89-105) writes the models or, when the
\* disk fails, logs the error and writes nothing
TrainSuccess ==
    /\ train_pc = "call"
    /\ ~RecentlyTrained(processing_metadata, clock, force)
    /\ ~TrainRaises(training_data)
    /\ fitted' = fitted \cup FittedBy(training_data)
    /\ saved_models' \in {<<fitted'>>, saved_models}
    /\ \E elapsed \in 0..MaxElapsed :
           /\ clock' = clock + elapsed
           /\ processing_metadata' =
                  TrainMetadata(processing_metadata, clock', Len(training_data), elapsed)
           /\ train_result' = [status |-> "success",
                               training_time |-> elapsed,
                               samples_processed |-> Len(training_data),
                               last_trained |-> clock',
                               model_version |-> clock']
    /\ train_pc' = "success"
    /\ trained_at' = <<clock'>>
    /\ UNCHANGED <<training_data, force>>
    /\ UNCHANGED <<recipes, user_preferences, ingredients, enhanced_recipes,
                   df_index, rec_pc, feature_weights>>
    /\ UNCHANGED <<normVars, preVars, enVars, anVars, sgVars, calls, requests>>

train == TrainSkipped \/ TrainError \/ TrainSuccess

(***************************************************************************)
(* routes.enhance_recipes served by several threads at once, all on the    *)
(* one recommender of routes.py line 14.  Each request keeps its own       *)
(* recipes, start time and DataFrame; self.processing_metadata and the     *)
(* clock are shared.  The recipes of a request are taken as enriched       *)
(* (enrich_recipe_data keeps the length of the list); the ranked list a    *)
(* request gets is computed from its own data only, as in RecommendOk.     *)
(***************************************************************************)
Threads == 1..MaxRequests

\* every request sends the ingredient "tomato" and no user_preferences
\* (routes.py lines 51-52); line 65 preprocesses the ingredients
RequestIngredients == preprocess_ingredients(<<s_tomato>>)

Arrived(rs) ==
    [recipes |-> rs, pc |-> "arrived", start_time |-> 0, processing_time |-> 0,
     ranked |-> FALSE, snapshot |-> <<>>, response |-> <<>>]

ReqFrame ==
    UNCHANGED <<recipes, user_preferences, ingredients, enhanced_recipes, df_index,
                rec_pc, feature_weights, normVars, preVars, enVars, anVars, sgVars,
                trainVars, calls>>

\* routes.py lines 55-62: no recipes to process
ReqEmpty(t) ==
    /\ requests[t].pc = "arrived"
    /\ requests[t].recipes = <<>>
    /\ requests' = [requests EXCEPT
                       ![t].response = [status |-> 200, total_count |-> 0],
                       ![t].pc = "done"]
    /\ UNCHANGED <<processing_metadata, clock>>
    /\ ReqFrame

\* routes.py lines 65-71 and recommendation.py line 201: start_time
ReqBegin(t) ==
    /\ requests[t].pc = "arrived"
    /\ requests[t].recipes # <<>>
    /\ requests' = [requests EXCEPT ![t].start_time = clock, ![t].pc = "scoring"]
    /\ UNCHANGED <<processing_metadata, clock>>
    /\ ReqFrame

\* recommendation.py lines 274-277: scoring raised, the recipes come back
ReqScoreError(t) ==
    /\ requests[t].pc = "scoring"
    /\ RecommendRaises(requests[t].recipes, <<>>, RequestIngredients)
    /\ requests' = [requests EXCEPT ![t].pc = "returned"]
    /\ UNCHANGED <<processing_metadata, clock>>
    /\ ReqFrame

\* recommendation.py lines 207-260: scored and ranked, processing_time taken
ReqScoreOk(t) ==
    /\ requests[t].pc = "scoring"
    /\ ~RecommendRaises(requests[t].recipes, <<>>, RequestIngredients)
    /\ \E elapsed \in 0..MaxElapsed :
           /\ clock' = clock + elapsed
           /\ requests' = [requests EXCEPT
                              ![t].processing_time = clock' - requests[t].start_time,
                              ![t].ranked = TRUE,
                              ![t].pc = "computed"]
    /\ UNCHANGED processing_metadata
    /\ ReqFrame

\* recommendation.py line 262: **self.processing_metadata is read
ReqReadMetadata(t) ==
    /\ requests[t].pc = "computed"
    /\ requests' = [requests EXCEPT ![t].snapshot = processing_metadata,
                                    ![t].pc = "merging"]
    /\ UNCHANGED <<processing_metadata, clock>>
    /\ ReqFrame

\* recommendation.py lines 261-266: the new dict is stored
ReqWriteMetadata(t) ==
    /\ requests[t].pc = "merging"
    /\ processing_metadata' =
           RecommendMetadata(requests[t].snapshot, clock, Len(requests[t].recipes),
                             requests[t].processing_time)
    /\ requests' = [requests EXCEPT ![t].pc = "returned"]
    /\ UNCHANGED clock
    /\ ReqFrame

\* routes.py lines 77-83: the response, with get_processing_metadata()
ReqRespond(t) ==
    /\ requests[t].pc = "returned"
    /\ requests' = [requests EXCEPT
                       ![t].response = [status |-> 200,
                                        total_count |-> Len(requests[t].recipes),
                                        processing_info |-> processing_metadata],
                       ![t].pc = "done"]
    /\ UNCHANGED <<processing_metadata, clock>>
    /\ ReqFrame

enhance_recipes(t) ==
    \/ ReqEmpty(t) \/ ReqBegin(t) \/ ReqScoreError(t) \/ ReqScoreOk(t)
    \/ ReqReadMetadata(t) \/ ReqWriteMetadata(t) \/ ReqRespond(t)

(***************************************************************************)
(* Specifications: one per operation, its inputs drawn by Init             *)
(***************************************************************************)
IdleRecommend ==
    /\ recipes = <<>>
    /\ user_preferences = <<>>
    /\ ingredients = <<>>
    /\ enhanced_recipes = <<>>
    /\ df_index = <<>>
    /\ rec_pc = "idle"
    /\ processing_metadata = <<>>
    /\ feature_weights = InitialWeights
    /\ clock = 0

IdleNormalize ==
    /\ ingredient = <<>>
    /\ normalized = <<>>
    /\ renormalized = <<>>
    /\ norm_pc = "idle"

IdlePreprocess ==
    /\ raw_ingredients = <<>>
    /\ processed = <<>>
    /\ pre_pc = "idle"

IdleEnrich ==
    /\ en_recipes = <<>>
    /\ heap = <<>>
    /\ enriched = <<>>
    /\ en_pc = "idle"
    /\ hash_seed = 0

IdleAnalyze ==
    /\ an_ingredients = <<>>
    /\ analysis = <<>>
    /\ an_pc = "idle"

IdleSuggest ==
    /\ sg_ingredients = <<>>
    /\ suggestions = <<>>
    /\ sg_pc = "idle"

IdleTrain ==
    /\ training_data = <<>>
    /\ force = FALSE
    /\ train_result = <<>>
    /\ train_pc = "idle"
    /\ fitted = {}
    /\ saved_models = <<>>
    /\ trained_at = <<>>

\* a fresh RecipeRecommender (__init__) about to serve one recommend call
InitRecommend ==
    /\ recipes \in SeqsUpTo(RecipePool, MaxRecipes)
    /\ user_preferences \in PreferencePool
    /\ ingredients \in IngredientsPool
    /\ enhanced_recipes = <<>>
    /\ df_index = <<>>
    /\ rec_pc = "call"
    /\ processing_metadata = <<>>
    /\ feature_weights = InitialWeights
    /\ clock = 0
    /\ IdleNormalize
    /\ IdlePreprocess
    /\ IdleEnrich
    /\ IdleAnalyze
    /\ IdleSuggest
    /\ IdleTrain
    /\ calls = 0
    /\ requests = <<>>

NextRecommend == RecommendEmpty \/ RecommendError \/ RecommendOk

SpecRecommend == InitRecommend /\ [][NextRecommend]_vars

InitNormalize ==
    /\ ingredient \in RawStrings
    /\ normalized = <<>>
    /\ renormalized = <<>>
    /\ norm_pc = "call"
    /\ IdleRecommend
    /\ IdlePreprocess
    /\ IdleEnrich
    /\ IdleAnalyze
    /\ IdleSuggest
    /\ IdleTrain
    /\ calls = 0
    /\ requests = <<>>

NextNormalize == NormalizeOnce \/ NormalizeTwice

SpecNormalize == InitNormalize /\ [][NextNormalize]_vars

InitPreprocess ==
    /\ raw_ingredients \in SeqsUpTo(RawPool, MaxIngredients)
    /\ processed = <<>>
    /\ pre_pc = "call"
    /\ IdleRecommend
    /\ IdleNormalize
    /\ IdleEnrich
    /\ IdleAnalyze
    /\ IdleSuggest
    /\ IdleTrain
    /\ calls = 0
    /\ requests = <<>>

NextPreprocess == Preprocess

SpecPreprocess == InitPreprocess /\ [][NextPreprocess]_vars

\* a caller holding up to MaxBatch records about to call enrich_recipe_data
InitEnrich ==
    /\ heap \in SeqsUpTo(EnrichPool, MaxBatch)
    /\ en_recipes = [i \in 1..Len(heap) |-> i]
    /\ enriched = <<>>
    /\ en_pc = "call"
    /\ hash_seed \in 0..MaxHashSeed
    /\ IdleRecommend
    /\ IdleNormalize
    /\ IdlePreprocess
    /\ IdleAnalyze
    /\ IdleSuggest
    /\ IdleTrain
    /\ calls = 0
    /\ requests = <<>>

NextEnrich == EnrichEmpty \/ EnrichError \/ EnrichOk

SpecEnrich == InitEnrich /\ [][NextEnrich]_vars

InitAnalyze ==
    /\ an_ingredients \in SeqsUpTo(AnalyzePool, MaxAnalyze)
    /\ analysis = <<>>
    /\ an_pc = "call"
    /\ IdleRecommend
    /\ IdleNormalize
    /\ IdlePreprocess
    /\ IdleEnrich
    /\ IdleSuggest
    /\ IdleTrain
    /\ calls = 0
    /\ requests = <<>>

NextAnalyze == AnalyzeEmpty \/ AnalyzeOk

SpecAnalyze == InitAnalyze /\ [][NextAnalyze]_vars

InitSuggest ==
    /\ sg_ingredients \in SeqsUpTo(SuggestPool, MaxSuggest)
    /\ suggestions = <<>>
    /\ sg_pc = "call"
    /\ IdleRecommend
    /\ IdleNormalize
    /\ IdlePreprocess
    /\ IdleEnrich
    /\ IdleAnalyze
    /\ IdleTrain
    /\ calls = 0
    /\ requests = <<>>

NextSuggest == SuggestEmpty \/ SuggestOk

SpecSuggest == InitSuggest /\ [][NextSuggest]_vars

(***************************************************************************)
(* The service: one RecipeRecommender (routes.py line 14) and the          *)
(* preprocessor functions, called one after the other.  A call hands its   *)
(* arguments over after some time has passed; the handler's action then    *)
(* runs it; the next call drops what the previous one left behind.         *)
(***************************************************************************)
\* the recipe of the pool with this id
RecipeNamed(id) == CHOOSE r \in RecipePool : r["id"] = id

\* the recipe lists handed to recommend: none, one recipe, two recipes, and
\* two of which one has no ingredients
ServiceRecipes ==
    { <<>>,
      <<RecipeNamed("r1")>>,
      <<RecipeNamed("r1"), RecipeNamed("r3")>>,
      <<RecipeNamed("r1"), RecipeNamed("r5")>> }

\* the batches handed to enrich_recipe_data: none, and one recipe that has
\* its tags and a list or a number for ingredients
ServiceBatches ==
    {<<>>} \cup {<<e>> : e \in {r \in EnrichPool :
                                   /\ {"tags", "ingredients"} \subseteq DOMAIN r
                                   /\ r["ingredients"].type \in {"list", "int"}}}

Quiet ==
    /\ rec_pc # "call"
    /\ pre_pc # "call"
    /\ en_pc # "call"
    /\ an_pc # "call"
    /\ sg_pc # "call"
    /\ train_pc # "call"

\* the time that passes before the next call (none, just under a day or a
\* day), and the call counted
Arrive ==
    /\ Quiet
    /\ calls < MaxCalls
    /\ calls' = calls + 1
    /\ \E dt \in {0, DayTicks - 1, DayTicks} : clock' = clock + dt

DropRecommend ==
    /\ recipes' = <<>>
    /\ user_preferences' = <<>>
    /\ ingredients' = <<>>
    /\ enhanced_recipes' = <<>>
    /\ df_index' = <<>>
    /\ rec_pc' = "idle"

DropPreprocess ==
    /\ raw_ingredients' = <<>>
    /\ processed' = <<>>
    /\ pre_pc' = "idle"

DropEnrich ==
    /\ en_recipes' = <<>>
    /\ heap' = <<>>
    /\ enriched' = <<>>
    /\ en_pc' = "idle"

DropAnalyze ==
    /\ an_ingredients' = <<>>
    /\ analysis' = <<>>
    /\ an_pc' = "idle"

DropSuggest ==
    /\ sg_ingredients' = <<>>
    /\ suggestions' = <<>>
    /\ sg_pc' = "idle"

DropTrain ==
    /\ training_data' = <<>>
    /\ force' = FALSE
    /\ train_result' = <<>>
    /\ train_pc' = "idle"

\* what no call touches by itself
ProcessState == UNCHANGED <<processing_metadata, feature_weights, fitted, saved_models,
                            trained_at, requests,
                    hash_seed, normVars>>

CallRecommend ==
    /\ Arrive
    /\ recipes' \in ServiceRecipes
    /\ user_preferences' \in {q \in PreferencePool : "past_interactions" \in DOMAIN q}
    /\ ingredients' = <<s_tomato>>
    /\ enhanced_recipes' = <<>>
    /\ df_index' = <<>>
    /\ rec_pc' = "call"
    /\ DropPreprocess /\ DropEnrich /\ DropAnalyze /\ DropSuggest /\ DropTrain
    /\ ProcessState

CallTrain ==
    /\ Arrive
    /\ training_data' \in TrainingPool
    /\ force' \in BOOLEAN
    /\ train_result' = <<>>
    /\ train_pc' = "call"
    /\ DropRecommend /\ DropPreprocess /\ DropEnrich /\ DropAnalyze /\ DropSuggest
    /\ ProcessState

CallAnalyze ==
    /\ Arrive
    /\ an_ingredients' \in {<<>>, <<s_pasta, s_tomato>>}
    /\ analysis' = <<>>
    /\ an_pc' = "call"
    /\ DropRecommend /\ DropPreprocess /\ DropEnrich /\ DropSuggest /\ DropTrain
    /\ ProcessState

CallSuggest ==
    /\ Arrive
    /\ sg_ingredients' \in {<<>>, <<s_tomato, s_Chicken>>}
    /\ suggestions' = <<>>
    /\ sg_pc' = "call"
    /\ DropRecommend /\ DropPreprocess /\ DropEnrich /\ DropAnalyze /\ DropTrain
    /\ ProcessState

CallPreprocess ==
    /\ Arrive
    /\ raw_ingredients' \in {<<>>, <<s_2cupsTomatoes, s_basil>>}
    /\ processed' = <<>>
    /\ pre_pc' = "call"
    /\ DropRecommend /\ DropEnrich /\ DropAnalyze /\ DropSuggest /\ DropTrain
    /\ ProcessState

CallEnrich ==
    /\ Arrive
    /\ heap' \in ServiceBatches
    /\ en_recipes' = [i \in 1..Len(heap') |-> i]
    /\ enriched' = <<>>
    /\ en_pc' = "call"
    /\ DropRecommend /\ DropPreprocess /\ DropAnalyze /\ DropSuggest /\ DropTrain
    /\ ProcessState

\* a fresh process: RecipeRecommender() at routes.py line 14, nothing called
InitService ==
    /\ IdleRecommend
    /\ IdleNormalize
    /\ IdlePreprocess
    /\ en_recipes = <<>>
    /\ heap = <<>>
    /\ enriched = <<>>
    /\ en_pc = "idle"
    /\ hash_seed = 0
    /\ IdleAnalyze
    /\ IdleSuggest
    /\ IdleTrain
    /\ calls = 0
    /\ requests = <<>>

NextService ==
    \/ CallRecommend \/ RecommendEmpty \/ RecommendError \/ RecommendOk
    \/ CallTrain \/ TrainSkipped \/ TrainError \/ TrainSuccess
    \/ CallAnalyze \/ AnalyzeEmpty \/ AnalyzeOk
    \/ CallSuggest \/ SuggestEmpty \/ SuggestOk
    \/ CallPreprocess \/ Preprocess
    \/ CallEnrich \/ EnrichEmpty \/ EnrichError \/ EnrichOk

SpecService == InitService /\ [][NextService]_vars

\* a process that serves train and recommend calls: fresh, or one on which a
\* train of one sample has just succeeded and saved its models
InitTraining ==
    /\ recipes = <<>>
    /\ user_preferences = <<>>
    /\ ingredients = <<>>
    /\ enhanced_recipes = <<>>
    /\ df_index = <<>>
    /\ rec_pc = "idle"
    /\ feature_weights = InitialWeights
    /\ clock = 0
    /\ IdleNormalize
    /\ IdlePreprocess
    /\ IdleEnrich
    /\ IdleAnalyze
    /\ IdleSuggest
    /\ training_data = <<>>
    /\ force = FALSE
    /\ train_result = <<>>
    /\ train_pc = "idle"
    /\ fitted = {}
    /\ \/ /\ processing_metadata = <<>>
          /\ saved_models = <<>>
          /\ trained_at = <<>>
       \/ /\ processing_metadata = TrainMetadata(<<>>, clock, 1, 0)
          /\ saved_models = <<fitted>>
          /\ trained_at = <<clock>>
    /\ calls = 0
    /\ requests = <<>>

NextTraining ==
    \/ CallRecommend \/ RecommendEmpty \/ RecommendError \/ RecommendOk
    \/ CallTrain \/ TrainSkipped \/ TrainError \/ TrainSuccess

SpecTraining == InitTraining /\ [][NextTraining]_vars

\* a fresh process with one enhance-recipes request arrived on every thread
InitConcurrent ==
    /\ IdleRecommend
    /\ IdleNormalize
    /\ IdlePreprocess
    /\ IdleEnrich
    /\ IdleAnalyze
    /\ IdleSuggest
    /\ IdleTrain
    /\ calls = 0
    /\ requests \in [Threads -> {Arrived(rs) : rs \in ServiceRecipes}]

NextConcurrent ==
    \/ \E t \in Threads : ReqEmpty(t)
    \/ \E t \in Threads : ReqBegin(t)
    \/ \E t \in Threads : ReqScoreError(t)
    \/ \E t \in Threads : ReqScoreOk(t)
    \/ \E t \in Threads : ReqReadMetadata(t)
    \/ \E t \in Threads : ReqWriteMetadata(t)
    \/ \E t \in Threads : ReqRespond(t)

SpecConcurrent == InitConcurrent /\ [][NextConcurrent]_vars

(***************************************************************************)
(* Claims about recommend, checked under SpecRecommend                     *)
(***************************************************************************)
ScoreFields ==
    {"ingredient_match_score", "preference_score", "normalized_popularity",
     "complexity_score", "ai_relevance_score", "ai_rank"}

\* C1: whenever two recipes receive equal ai_relevance_score, recommend
\* outputs them in the relative order they had in the input list (stated for
\* two records that differ, so that the order is one the caller can see).
C1_RankingStable ==
    rec_pc = "ok" =>
        \A a, b \in 1..Len(enhanced_recipes) :
            /\ a < b
            /\ enhanced_recipes[a]["ai_relevance_score"] =
                   enhanced_recipes[b]["ai_relevance_score"]
            /\ ~IsNaN(enhanced_recipes[a]["ai_relevance_score"])
            /\ recipes[df_index[a]] # recipes[df_index[b]]
            => df_index[a] < df_index[b]

\* C2: for a non-empty recipe list the output is in non-increasing order of
\* ai_relevance_score and the record at position k carries ai_rank = k.
C2_RankedDescending ==
    rec_pc = "ok" =>
        /\ \A k \in 1..Len(enhanced_recipes) : enhanced_recipes[k]["ai_rank"] = k
        /\ \A k \in 1..(Len(enhanced_recipes) - 1) :
               RLeq(enhanced_recipes[k + 1]["ai_relevance_score"],
                    enhanced_recipes[k]["ai_relevance_score"])

\* C3: the output holds the input records, each exactly once, every field
\* the caller supplied unchanged, and only score and rank fields added.
C3_SameRecordsAugmented ==
    rec_pc = "ok" =>
        /\ Len(enhanced_recipes) = Len(recipes)
        /\ df_index \in Perms(Len(recipes))
        /\ \A k \in 1..Len(enhanced_recipes) :
               /\ \A c \in DOMAIN recipes[df_index[k]] :
                      /\ c \in DOMAIN enhanced_recipes[k]
                      /\ enhanced_recipes[k][c] = recipes[df_index[k]][c]
               /\ (DOMAIN enhanced_recipes[k]) \ (DOMAIN recipes[df_index[k]])
                      \subseteq ScoreFields

\* the signals whose required input recipe i has: the ingredient match needs
\* the caller's ingredients and the recipe's, the preference needs a
\* favorites key, popularity and complexity need the recipe's own field
SignalPresent(i, c) ==
    CASE c = "ingredient_match_score" ->
             ingredients # <<>> /\ "ingredients" \in DOMAIN recipes[i]
      [] c = "preference_score" -> HasPreference(user_preferences)
      [] c = "normalized_popularity" ->
             "popularity" \in DOMAIN recipes[i] /\ HasPopularity(recipes)
      [] c = "complexity_score" -> "complexity" \in DOMAIN recipes[i]

WeightedSum(i, cols) ==
    RSum([k \in 1..Len(SignalOrder) |->
             IF SignalPresent(i, SignalOrder[k])
             THEN RMul(cols[SignalOrder[k]][i], WeightOf(InitialWeights, SignalOrder[k]))
             ELSE Zero])

\* C4: ai_relevance_score is the sum of weight x signal over exactly the
\* signals whose required input is present; with an empty ingredients list
\* no ingredient_match_score is produced.
C4_ScoreIsWeightedSum ==
    rec_pc = "ok" =>
        \A k \in 1..Len(enhanced_recipes) :
            /\ enhanced_recipes[k]["ai_relevance_score"] =
                   Round4(WeightedSum(df_index[k],
                       ScoreColumns(recipes, user_preferences, ingredients)))
            /\ (ingredients = <<>> =>
                   "ingredient_match_score" \notin DOMAIN enhanced_recipes[k])

\* C5: recommend never raises: a call always returns; an empty list gives an
\* empty list, and when scoring fails the caller's list comes back as it
\* was, in its order and without rank fields.
C5_FailOpen ==
    /\ rec_pc \in {"call", "empty", "ok", "error"}
    /\ rec_pc # "call" =>
           /\ (recipes = <<>> => enhanced_recipes = <<>>)
           /\ (recipes # <<>> /\ RecommendRaises(recipes, user_preferences, ingredients)
                  => /\ enhanced_recipes = recipes
                     /\ \A k \in 1..Len(enhanced_recipes) :
                            "ai_rank" \notin DOMAIN enhanced_recipes[k])

\* C5 witness: the handler ran on a list of several records
C5_Witness == rec_pc = "error" /\ Len(recipes) >= 2 /\ enhanced_recipes = recipes

(***************************************************************************)
(* Claims about the text operations                                        *)
(***************************************************************************)
\* C6: normalize_ingredient is idempotent: normalising a normalised string
\* gives the same string.  Checked under SpecNormalize.
C6_Idempotent == norm_pc = "twice" => renormalized = normalized

\* the positions of raw whose normalised form is kept and is not the
\* normalised form of an earlier position
FirstOccurrences(raw) ==
    {i \in 1..Len(raw) :
        /\ Len(normalize_ingredient(raw[i])) > 1
        /\ \A j \in 1..(i - 1) :
               normalize_ingredient(raw[j]) # normalize_ingredient(raw[i])}

\* C7: the output of preprocess_ingredients has no two equal elements, no
\* element of length 0 or 1, and lists the distinct normalised results in
\* the order of their first occurrence in the input.  Checked under
\* SpecPreprocess.
C7_UniqueInFirstSeenOrder ==
    pre_pc = "returned" =>
        /\ \A i, j \in 1..Len(processed) : i # j => processed[i] # processed[j]
        /\ \A i \in 1..Len(processed) : Len(processed[i]) > 1
        /\ LET firsts == FirstOccurrences(raw_ingredients)
           IN  /\ Len(processed) = Cardinality(firsts)
               /\ \A i \in firsts :
                      processed[Cardinality({j \in firsts : j <= i})] =
                          normalize_ingredient(raw_ingredients[i])

\* C7 witness: a repeated result and a too-short one were dropped and two
\* distinct results kept
C7_Witness ==
    /\ pre_pc = "returned"
    /\ Len(processed) = 2
    /\ Len(raw_ingredients) = 3
    /\ \E i, j \in 1..3 :
           /\ i < j
           /\ normalize_ingredient(raw_ingredients[i]) =
                  normalize_ingredient(raw_ingredients[j])
           /\ raw_ingredients[i] # raw_ingredients[j]

(***************************************************************************)
(* Claims about enrich_recipe_data, checked under SpecEnrich               *)
(***************************************************************************)
Min(a, b) == IF a < b THEN a ELSE b

\* the segments a text is cut into at its runs of '.', '!' and '?'
Segments(s) ==
    1 + Cardinality({i \in 1..Len(s) :
                        s[i] \in Terminators /\ (i = 1 \/ s[i - 1] \notin Terminators)})

IngredientCount(r) ==
    IF "ingredients" \notin DOMAIN r THEN 0
    ELSE IF r["ingredients"].type = "list" THEN Len(r["ingredients"].items)
    ELSE IF r["ingredients"].type = "str" THEN Len(r["ingredients"].chars)
    ELSE 0

\* step_count with every string, the empty one included, cut into segments
StepCount(r) ==
    IF "instructions" \notin DOMAIN r THEN 0
    ELSE IF r["instructions"].type = "list" THEN Len(r["instructions"].items)
    ELSE Segments(r["instructions"].chars)

\* step_count with an empty instructions value counted as absent
StepCountOfNonEmpty(r) ==
    IF "instructions" \in DOMAIN r /\ r["instructions"] = StrOf(<<>>) THEN 0
    ELSE StepCount(r)

\* min(ic/15, 1) * 0.5 + min(sc/10, 1) * 0.5, in sixtieths
ComplexityOf(ic, sc) == Rat(Min(2 * ic, 30) + Min(3 * sc, 30), 60)

InUnitInterval(x) == ~IsNaN(x) /\ RLeq(Zero, x) /\ RLeq(x, One)

\* C8 as stated: the complexity written by enrich_recipe_data lies in [0,1]
\* and equals min(ingredient_count/15, 1)*0.5 + min(step_count/10, 1)*0.5,
\* where every instructions string without '.', '!' or '?' has step_count 1.
C8_ComplexityFormula ==
    en_pc = "ok" =>
        \A i \in 1..Len(en_recipes) :
            LET r == heap[en_recipes[i]]
                e == heap[enriched[i]]
            IN  /\ InUnitInterval(e["complexity"])
                /\ e["complexity"] = ComplexityOf(IngredientCount(r), StepCount(r))

\* C8 amended: the same, except that an empty instructions string counts as
\* absent (step_count 0); a non-empty string without a terminator has
\* step_count 1.
C8_ComplexityFormulaNonEmpty ==
    en_pc = "ok" =>
        \A i \in 1..Len(en_recipes) :
            LET r == heap[en_recipes[i]]
                e == heap[enriched[i]]
            IN  /\ InUnitInterval(e["complexity"])
                /\ e["complexity"] =
                       ComplexityOf(IngredientCount(r), StepCountOfNonEmpty(r))

\* C8 witness: a recipe with ingredients and a non-empty instructions string
\* without a terminator was enriched, its step counted once
C8_Witness ==
    /\ en_pc = "ok"
    /\ \E i \in 1..Len(en_recipes) :
           LET r == heap[en_recipes[i]]
           IN  /\ "instructions" \in DOMAIN r
               /\ r["instructions"].type = "str"
               /\ r["instructions"].chars # <<>>
               /\ \A k \in 1..Len(r["instructions"].chars) :
                      r["instructions"].chars[k] \notin Terminators
               /\ IngredientCount(r) = 2
               /\ heap[enriched[i]]["complexity"] = Rat(7, 60)

TitlePopulated(r) == "title" \in DOMAIN r /\ r["title"] # <<>>

\* two input recipes with the same title and the same ingredient strings
\* got the same recipe_hash
SameInputSameHash ==
    \A i, j \in 1..Len(en_recipes) :
        LET r == heap[en_recipes[i]]
            q == heap[en_recipes[j]]
        IN  ( /\ "recipe_hash" \in DOMAIN heap[enriched[i]]
              /\ "recipe_hash" \in DOMAIN heap[enriched[j]]
              /\ r["title"] = q["title"]
              /\ r["ingredients"] = q["ingredients"] )
            => heap[enriched[i]]["recipe_hash"] = heap[enriched[j]]["recipe_hash"]

\* C10 as stated: an enriched record carries recipe_hash exactly when title
\* and ingredients are both populated (present and non-empty) on the input
\* recipe, and equal (title, ingredients) give equal hashes within one run.
C10_HashIffPopulated ==
    en_pc = "ok" =>
        /\ \A i \in 1..Len(en_recipes) :
               "recipe_hash" \in DOMAIN heap[enriched[i]]
                   <=> ( /\ TitlePopulated(heap[en_recipes[i]])
                         /\ Populated(heap[en_recipes[i]], "ingredients") )
        /\ SameInputSameHash

\* C10 amended: when the loop completes, an enriched record carries
\* recipe_hash exactly when the keys title and ingredients are both present
\* on the input recipe, empty or not, and equal (title, ingredients) give
\* equal hashes within one run; when the loop raises, the caller's records
\* come back as they were, without a recipe_hash.
C10_HashIffKeysPresent ==
    /\ en_pc = "ok" =>
           /\ \A i \in 1..Len(en_recipes) :
                  "recipe_hash" \in DOMAIN heap[enriched[i]]
                      <=> {"title", "ingredients"} \subseteq DOMAIN heap[en_recipes[i]]
           /\ SameInputSameHash
    /\ en_pc = "error" =>
           /\ enriched = en_recipes
           /\ \A i \in 1..Len(enriched) : "recipe_hash" \notin DOMAIN heap[enriched[i]]

\* C10 witness: two different recipes with the same non-empty title and
\* ingredients got the same recipe_hash
C10_Witness ==
    /\ en_pc = "ok"
    /\ Len(en_recipes) = 2
    /\ heap[en_recipes[1]] # heap[en_recipes[2]]
    /\ \A i \in 1..2 : {"title", "ingredients"} \subseteq DOMAIN heap[en_recipes[i]]
    /\ TitlePopulated(heap[en_recipes[1]])
    /\ Populated(heap[en_recipes[1]], "ingredients")
    /\ heap[en_recipes[1]]["title"] = heap[en_recipes[2]]["title"]
    /\ heap[en_recipes[1]]["ingredients"] = heap[en_recipes[2]]["ingredients"]
    /\ heap[enriched[1]]["recipe_hash"] = heap[enriched[2]]["recipe_hash"]

(***************************************************************************)
(* Claims about failures inside enrich_recipe_data, under SpecEnrich       *)
(***************************************************************************)
\* C11: a failure on one derived field of one recipe does not abort the
\* batch: every recipe of the batch whose own enrichment does not fail is
\* returned with complexity, cooking_time_minutes and tags.
C11_FailureIsolated ==
    en_pc \in {"ok", "error"} =>
        \A i \in 1..Len(en_recipes) :
            ~RecipeRaises(heap[en_recipes[i]]) =>
                {"complexity", "cooking_time_minutes", "tags"}
                    \subseteq DOMAIN heap[enriched[i]]

\* C12: a recipe whose ingredients value is not a list never makes
\* enrich_recipe_data raise, and the record returned for it has no
\* normalized_ingredients or has the raw ingredients value there.
C12_NonListIngredientsFallBack ==
    /\ en_pc \in {"call", "empty", "ok", "error"}
    /\ en_pc \in {"ok", "error"} =>
           \A i \in 1..Len(en_recipes) :
               LET r == heap[en_recipes[i]]
                   e == heap[enriched[i]]
               IN  ("ingredients" \in DOMAIN r /\ r["ingredients"].type # "list") =>
                       \/ "normalized_ingredients" \notin DOMAIN e
                       \/ e["normalized_ingredients"] = r["ingredients"]

(***************************************************************************)
(* Claims about analyze_ingredients, checked under SpecAnalyze             *)
(***************************************************************************)
\* C15: analyze_ingredients on ["pasta", "tomato", "basil", "parmesan"]
\* lists "Italian" among suitable_categories with match_score >= 0.15 and
\* returns the groups Grains, Vegetables and Dairy, each populated.
C15_ItalianScenario ==
    (an_pc = "ok" /\ an_ingredients = <<s_pasta, s_tomato, s_basil, s_parmesan>>) =>
        /\ \E q \in 1..Len(analysis["suitable_categories"]) :
               /\ analysis["suitable_categories"][q]["name"] = "Italian"
               /\ RLeq(Rat(15, 100), analysis["suitable_categories"][q]["match_score"])
        /\ \A n \in {"Grains", "Vegetables", "Dairy"} :
               /\ n \in DOMAIN analysis["ingredient_groups"]
               /\ analysis["ingredient_groups"][n] # <<>>

\* the vocabulary terms of category k found inside some user ingredient
TermsFound(k) ==
    {t \in 1..Len(categories[k][2]) :
        \E i \in 1..Len(an_ingredients) : Contains(an_ingredients[i], categories[k][2][t])}

CategoryNamed(name) == CHOOSE k \in 1..Len(categories) : categories[k][1] = name

\* C19: a category is listed exactly when more than 0.15 of its vocabulary
\* terms occur inside some user ingredient, each listed category once, in
\* non-increasing order of that fraction; an empty list gives no categories
\* and no groups.
C19_CategoriesAboveThreshold ==
    /\ an_pc = "ok" =>
           LET listed == analysis["suitable_categories"]
           IN  /\ \A k \in 1..Len(categories) :
                      (100 * Cardinality(TermsFound(k)) > 15 * Len(categories[k][2]))
                          <=> \E q \in 1..Len(listed) : listed[q]["name"] = categories[k][1]
               /\ \A q, r \in 1..Len(listed) :
                      q < r =>
                          /\ listed[q]["name"] # listed[r]["name"]
                          /\ Cardinality(TermsFound(CategoryNamed(listed[q]["name"])))
                                 * Len(categories[CategoryNamed(listed[r]["name"])][2])
                             >= Cardinality(TermsFound(CategoryNamed(listed[r]["name"])))
                                 * Len(categories[CategoryNamed(listed[q]["name"])][2])
    /\ an_pc = "empty" =>
           /\ analysis["suitable_categories"] = <<>>
           /\ DOMAIN analysis["ingredient_groups"] = {}

\* C19 witness: two categories are listed, the better one first although it
\* comes later in the table, and a third one with a single term found is not
C19_Witness ==
    /\ an_pc = "ok"
    /\ Len(analysis["suitable_categories"]) = 2
    /\ analysis["suitable_categories"][1]["name"] = "American"
    /\ analysis["suitable_categories"][2]["name"] = "Italian"
    /\ Cardinality(TermsFound(CategoryNamed("Mexican"))) = 1

\* group n is the first food group with a keyword inside ingredient x, or
\* "Other" when no group has one
IsFirstGroupOf(n, x) ==
    LET matching == {g \in 1..Len(food_groups) :
                        \E w \in 1..Len(food_groups[g][2]) :
                            Contains(x, food_groups[g][2][w])}
    IN  \/ n = "Other" /\ matching = {}
        \/ \E g \in matching : food_groups[g][1] = n /\ \A h \in matching : g <= h

\* C20: the returned groups partition the input: every input ingredient is
\* in exactly one group, the first group with a keyword inside it or
\* "Other", as often as it occurs in the input; no returned group is empty
\* and no group holds anything else.
C20_GroupsPartitionInput ==
    an_pc = "ok" =>
        LET G == analysis["ingredient_groups"]
        IN  /\ \A n \in DOMAIN G :
                   /\ G[n] # <<>>
                   /\ Range(G[n]) \subseteq Range(an_ingredients)
                   /\ Len(G[n]) = Cardinality({i \in 1..Len(an_ingredients) :
                                                  an_ingredients[i] \in Range(G[n])})
            /\ \A x \in Range(an_ingredients) :
                   /\ Cardinality({n \in DOMAIN G : x \in Range(G[n])}) = 1
                   /\ \A n \in DOMAIN G : x \in Range(G[n]) => IsFirstGroupOf(n, x)

\* C20 witness: an ingredient with keywords of two groups went to the first
\* of them, another one to "Other", and one ingredient occurs twice
C20_Witness ==
    /\ an_pc = "ok"
    /\ "Vegetables" \in DOMAIN analysis["ingredient_groups"]
    /\ s_pepperBacon \in Range(analysis["ingredient_groups"]["Vegetables"])
    /\ "Other" \in DOMAIN analysis["ingredient_groups"]
    /\ Len(an_ingredients) > Cardinality(Range(an_ingredients))

(***************************************************************************)
(* Claims about suggest_additional_ingredients, checked under SpecSuggest  *)
(***************************************************************************)
\* the (ingredient, key, pair) positions at which pair p is proposed: the
\* key occurs in the ingredient and p, found in no input ingredient, is one
\* of the key's pairs (letter case ignored)
ProposalSites(p) ==
    {site \in (1..Len(sg_ingredients)) \X (1..Len(pairings)) \X (1..6) :
        /\ site[3] <= Len(pairings[site[2]][2])
        /\ pairings[site[2]][2][site[3]] = p
        /\ Contains(Lower(sg_ingredients[site[1]]), pairings[site[2]][1])
        /\ \A i \in 1..Len(sg_ingredients) : ~Contains(Lower(sg_ingredients[i]), p)}

Frequency(p) == Cardinality(ProposalSites(p))

\* when p was first proposed: the loops run over ingredients, then keys,
\* then pairs
FirstProposed(p) ==
    LET times == {(site[1] * 10 + site[2]) * 10 + site[3] : site \in ProposalSites(p)}
    IN  CHOOSE t \in times : \A u \in times : t <= u

AllPairs == UNION {Range(pairings[k][2]) : k \in 1..Len(pairings)}

\* C16: at most 5 pairwise distinct suggestions, each one proposed and none
\* a substring of an input ingredient, in non-increasing order of frequency
\* with equal frequencies in first-proposed order; whatever is left out is
\* no more frequent than anything returned, and is left out only when 5 are
\* returned; an empty input gives an empty result.
C16_TopFiveSuggestions ==
    /\ sg_pc = "empty" => suggestions = <<>>
    /\ sg_pc = "ok" =>
           /\ Len(suggestions) <= 5
           /\ \A q \in 1..Len(suggestions) :
                  /\ Frequency(suggestions[q]) > 0
                  /\ \A i \in 1..Len(sg_ingredients) :
                         ~Contains(sg_ingredients[i], suggestions[q])
           /\ \A q, r \in 1..Len(suggestions) :
                  q < r =>
                      /\ suggestions[q] # suggestions[r]
                      /\ \/ Frequency(suggestions[q]) > Frequency(suggestions[r])
                         \/ /\ Frequency(suggestions[q]) = Frequency(suggestions[r])
                            /\ FirstProposed(suggestions[q]) < FirstProposed(suggestions[r])
           /\ \A p \in AllPairs \ Range(suggestions) :
                  Frequency(p) > 0 =>
                      /\ Len(suggestions) = 5
                      /\ \A q \in 1..Len(suggestions) :
                             Frequency(p) <= Frequency(suggestions[q])

\* C16 witness: more than 5 pairs were proposed, 5 were returned, the first
\* more frequent than the last and two equally frequent ones among them
C16_Witness ==
    /\ sg_pc = "ok"
    /\ Len(suggestions) = 5
    /\ \E p \in AllPairs \ Range(suggestions) : Frequency(p) > 0
    /\ Frequency(suggestions[1]) > Frequency(suggestions[5])
    /\ Frequency(suggestions[4]) = Frequency(suggestions[5])

(***************************************************************************)
(* Claims about the service, checked under SpecService                     *)
(***************************************************************************)
\* C13: whatever calls have been made, the scoring weights are
\* ingredient_match 0.4, user_preference 0.3, popularity 0.2 and complexity
\* 0.1; and a step of preprocess_ingredients, enrich_recipe_data,
\* analyze_ingredients or suggest_additional_ingredients leaves the
\* processing metadata as it was.
C13_WeightsFixedMetadataFramed ==
    /\ [](feature_weights = [ingredient_match |-> Rat(4, 10),
                             user_preference |-> Rat(3, 10),
                             popularity |-> Rat(2, 10),
                             complexity |-> Rat(1, 10)])
    /\ [][(pre_pc = "call" \/ en_pc = "call" \/ an_pc = "call" \/ sg_pc = "call")
              => processing_metadata' = processing_metadata]_vars

\* C13 witness: analyze_ingredients has run on a recommender whose metadata
\* an earlier recommend or train had filled
C13_Witness ==
    /\ an_pc = "ok"
    /\ calls = 2
    /\ DOMAIN processing_metadata # {}

\* C14: no step of recommend or train removes a key from the processing
\* metadata, and a successful recommend leaves in it the time of the run, the
\* number of recipes of the call and the time the call took.
C14_MetadataUpdateOnly ==
    [][/\ DOMAIN processing_metadata \subseteq DOMAIN processing_metadata'
       /\ (rec_pc = "call" /\ rec_pc' = "ok") =>
              /\ MetadataKeys \subseteq DOMAIN processing_metadata'
              /\ processing_metadata'["last_recommendation_time"] = clock'
              /\ processing_metadata'["recipes_processed"] = Len(recipes)
              /\ processing_metadata'["processing_time_seconds"] = clock' - clock]_vars

(***************************************************************************)
(* Claims about the scoring signals, checked under SpecRecommend           *)
(***************************************************************************)
\* the ingredients of recipe i of which some user ingredient is a substring,
\* letter case ignored
MatchedCount(i) ==
    Cardinality({a \in 1..Len(recipes[i]["ingredients"]) :
        \E b \in 1..Len(ingredients) :
            Contains(Lower(recipes[i]["ingredients"][a]), Lower(ingredients[b]))})

\* matched/total, times 1.2 when above 0.8, at most 1
RawMatch(i) ==
    LET total == Len(recipes[i]["ingredients"])
        fraction == Rat(MatchedCount(i), total)
    IN  IF total = 0 THEN Zero
        ELSE IF RLess(Rat(8, 10), fraction)
             THEN (IF RLess(One, RMul(fraction, Rat(12, 10)))
                   THEN One ELSE RMul(fraction, Rat(12, 10)))
             ELSE fraction

\* C17: when recommend scores the ingredient match, the score of each recipe
\* is its raw match (matched/total, times 1.2 above 0.8, capped at 1) divided
\* by the best raw match of the batch; it lies in [0,1], is exactly 1 for the
\* best-matching recipe when some recipe matched, and 0 for all when none did.
C17_IngredientMatchNormalised ==
    (rec_pc = "ok" /\ ingredients # <<>> /\ "ingredients" \in Columns(recipes)) =>
        \A raw \in {[j \in 1..Len(recipes) |-> RawMatch(j)]} :
        \A any_matched \in {\E j \in 1..Len(recipes) : MatchedCount(j) > 0} :
        \A best \in {m \in Range(raw) : \A v \in Range(raw) : RLeq(v, m)} :
        \A k \in 1..Len(enhanced_recipes) :
            LET i == df_index[k]
                score == enhanced_recipes[k]["ingredient_match_score"]
            IN  /\ RLeq(Zero, score) /\ RLeq(score, One)
                /\ any_matched =>
                       /\ RMul(score, best) = raw[i]
                       /\ (raw[i] = best => score = One)
                /\ ~any_matched => score = Zero

\* C17 witness: a recipe with 5 of its 6 ingredients matched was scored (the
\* 1.2 boost applies and is capped) next to one with a lower score
C17_Witness ==
    /\ rec_pc = "ok"
    /\ ingredients # <<>>
    /\ \E i \in 1..Len(recipes) :
           /\ "ingredients" \in DOMAIN recipes[i]
           /\ Len(recipes[i]["ingredients"]) = 6
           /\ MatchedCount(i) = 5
    /\ \E k \in 1..Len(enhanced_recipes) :
           /\ "ingredient_match_score" \in DOMAIN enhanced_recipes[k]
           /\ RLess(Zero, enhanced_recipes[k]["ingredient_match_score"])
           /\ RLess(enhanced_recipes[k]["ingredient_match_score"], One)

\* the contributions to the preference score of recipe i, before the floor
PreferenceSum(i) ==
    LET r == recipes[i]
        q == user_preferences
        favorite == IF r["id"] \in Range(q["favorites"]) THEN One ELSE Zero
        cuisine == IF /\ "cuisine_preferences" \in DOMAIN q
                      /\ "cuisine" \in DOMAIN r
                      /\ r["cuisine"] \in Range(q["cuisine_preferences"])
                   THEN Rat(1, 2) ELSE Zero
        restricted == IF "dietary_restrictions" \in DOMAIN q /\ "tags" \in DOMAIN r
                      THEN Cardinality({a \in 1..Len(q["dietary_restrictions"]) :
                               \E t \in 1..Len(r["tags"]) :
                                   Lower(r["tags"][t]) = Lower(q["dietary_restrictions"][a])})
                      ELSE 0
        rated == IF "past_interactions" \in DOMAIN q
                 THEN {a \in 1..Len(q["past_interactions"]) :
                          /\ {"recipe_id", "rating"} \subseteq DOMAIN q["past_interactions"][a]
                          /\ q["past_interactions"][a]["recipe_id"] = r["id"]}
                 ELSE {}
        ratings == IF rated = {} THEN Zero
                   ELSE RSum([a \in 1..Len(q["past_interactions"]) |->
                                 IF a \in rated
                                 THEN Rat(q["past_interactions"][a]["rating"] * 8, 50)
                                 ELSE Zero])
    IN  RAdd(RAdd(RAdd(favorite, cuisine), Rat(-7 * restricted, 10)), ratings)

PreferenceFloored(i) == RMax(PreferenceSum(i), Zero)

\* C18: when recommend scores the preferences (a favorites key is given),
\* the score of each recipe is its floored sum of contributions divided by
\* the best floored sum of the batch when that is positive; it lies in [0,1];
\* a cuisine_preferences, dietary_restrictions or past_interactions key that
\* is missing only drops its contribution, and a call that fails has failed
\* over a field a recipe lacks, not over a missing preference key.
C18_PreferenceScoreFlooredNormalised ==
    /\ (rec_pc = "ok" /\ "favorites" \in DOMAIN user_preferences) =>
           \A floored \in {[j \in 1..Len(recipes) |-> PreferenceFloored(j)]} :
           \A best \in {m \in Range(floored) : \A v \in Range(floored) : RLeq(v, m)} :
           \A k \in 1..Len(enhanced_recipes) :
               LET i == df_index[k]
                   score == enhanced_recipes[k]["preference_score"]
               IN  /\ RLeq(Zero, score) /\ RLeq(score, One)
                   /\ IF RLess(Zero, best)
                      THEN RMul(score, best) = floored[i]
                      ELSE score = Zero
    /\ rec_pc = "error" =>
           \/ /\ ingredients # <<>>
              /\ \E i, j \in 1..Len(recipes) :
                     /\ "ingredients" \in DOMAIN recipes[i]
                     /\ "ingredients" \notin DOMAIN recipes[j]
           \/ /\ "dietary_restrictions" \in DOMAIN user_preferences
              /\ \E i, j \in 1..Len(recipes) :
                     /\ "tags" \in DOMAIN recipes[i]
                     /\ "tags" \notin DOMAIN recipes[j]

\* C18 witness: a recipe whose contributions sum to less than zero was
\* scored 0 next to a recipe scored strictly between 0 and 1
C18_Witness ==
    /\ rec_pc = "ok"
    /\ "favorites" \in DOMAIN user_preferences
    /\ \E k \in 1..Len(enhanced_recipes) :
           /\ RLess(PreferenceSum(df_index[k]), Zero)
           /\ enhanced_recipes[k]["preference_score"] = Zero
    /\ \E k \in 1..Len(enhanced_recipes) :
           /\ RLess(Zero, enhanced_recipes[k]["preference_score"])
           /\ RLess(enhanced_recipes[k]["preference_score"], One)

(***************************************************************************)
(* Claims about train, checked under SpecTraining                          *)
(***************************************************************************)
\* C22: a train call with force = false is skipped exactly when an earlier
\* train succeeded less than a day before, whatever recommend calls ran in
\* between; a forced train is never skipped; a skipped train and a failed
\* train leave the processing metadata as it was.
C22_SkippedIffTrainedWithinADay ==
    [][(train_pc = "call" /\ train_pc' # "call") =>
           /\ train_pc' = "skipped" <=>
                  /\ ~force
                  /\ trained_at # <<>>
                  /\ clock - trained_at[1] < DayTicks
           /\ train_pc' \in {"skipped", "error"} =>
                  processing_metadata' = processing_metadata]_vars

\* C22 witness: a train that succeeded, then a successful recommend, then an
\* unforced train less than a day after the first, skipped
C22_Witness ==
    /\ train_pc = "skipped"
    /\ ~force
    /\ trained_at # <<>>
    /\ "recipes_processed" \in DOMAIN processing_metadata
    /\ clock - trained_at[1] > 0

(***************************************************************************)
(* Claims about concurrent requests, checked under SpecConcurrent          *)
(***************************************************************************)
\* C21: the processing_info in the response of a request whose recipes were
\* scored describes that request: its recipes_processed is the number of
\* recipes the request submitted.
C21_ProcessingInfoOwnRequest ==
    \A t \in Threads :
        (requests[t].pc = "done" /\ requests[t].ranked) =>
            requests[t].response.processing_info["recipes_processed"] =
                Len(requests[t].recipes)

====
